---- MODULE Spec2Model ----
(***************************************************************************)
(* Verification model of obsidian-mcp: the path-safety validators, the     *)
(* frontmatter engine and the backup-and-rollback edit protocol.           *)
(*                                                                         *)
(* Strings are sequences of tokens.  A token is one character, or a run    *)
(* of characters that the code only ever treats as a unit (a long run of   *)
(* letters, a reserved device name, a "---" delimiter, a YAML entry).      *)
(***************************************************************************)
EXTENDS Integers, Sequences, FiniteSets, TLC

VARIABLES
    arg,      \* input of the pure function under check
    ret,      \* its result, or Pending before the call
    files,    \* the filesystem: path -> content of the file at that path
    calls,    \* the tool calls in flight: call id -> call record
    now,      \* Date.now(), in milliseconds
    dailyNoteConfigCache   \* get-daily-note-path: the cache entry of the vault

vars == <<arg, ret, files, calls, now, dailyNoteConfigCache>>

Pending == [kind |-> "pending"]
Null == [kind |-> "null"]
Reason(r) == [kind |-> "reason", reason |-> r]
Thrown(c) == [kind |-> "throw", code |-> c]
Returned(v) == [kind |-> "return", value |-> v]

NoArg == [fn |-> "none"]

\* The variables a pure-function specification leaves alone.
NoFiles == <<>>
NoCalls == <<>>

\* All sequences over S of length 0..n.
SeqsUpTo(S, n) == UNION {[1..k -> S] : k \in 0..n}

(***************************************************************************)
(* checkPathCharacters (src/utils/path.ts)                                 *)
(***************************************************************************)

\* Bound on the number of tokens that follow the prefix of a path string
\* under check.
MaxPathTokens == 3

\* "a" is a letter, "1" a character that is no letter, "H" a run of 200
\* letters, "BIG" twenty-one such runs joined by "/", "CON" the reserved
\* name, "NUL" the null byte, "CTL" the control character 0x01, "FFFD" the
\* Unicode replacement character, "BS" the backslash.
PathTokens ==
    {"/", "BS", ".", "a", "1", ":", "NUL", "CTL", "<", "FFFD", " ",
     "CON", "H", "BIG"}

Platforms == {"win32", "linux"}

TokenLength(t) ==
    CASE t = "H" -> 200
      [] t = "BIG" -> 4220
      [] t = "CON" -> 3
      [] OTHER -> 1

RECURSIVE StrLength(_)
StrLength(s) ==
    IF s = <<>> THEN 0 ELSE TokenLength(Head(s)) + StrLength(Tail(s))

IsSeparator(t) == t \in {"/", "BS"}

\* vaultPath.split(/[\/\\]/)
RECURSIVE SplitAcc(_, _)
SplitAcc(s, cur) ==
    IF s = <<>> THEN <<cur>>
    ELSE IF IsSeparator(Head(s)) THEN <<cur>> \o SplitAcc(Tail(s), <<>>)
    ELSE SplitAcc(Tail(s), Append(cur, Head(s)))

SplitComponents(s) == SplitAcc(s, <<>>)

Range(f) == {f[i] : i \in DOMAIN f}

Contains(s, t) == t \in Range(s)

maxPathLength(platform) == IF platform = "win32" THEN 260 ELSE 4096

maxComponentLength == 255

\* /^\\\\.\\/ : two backslashes, any character but a line terminator, a
\* backslash (the dot of the pattern is not escaped).
matchesDevicePath(s) ==
    /\ Len(s) >= 4
    /\ s[1] = "BS" /\ s[2] = "BS" /\ s[4] = "BS"

\* /^[A-Za-z]:\\?$/
matchesDriveRoot(s) ==
    \/ s = <<"a", ":">>
    \/ s = <<"a", ":", "BS">>

\* Mutant: the reserved names without the optional extension.
matchesReservedName_NoExtension(part) == part = <<"CON">>

\* /^(con|prn|aux|nul|com[1-9]|lpt[1-9])(\..*)?$/i on one component
matchesReservedName(part) ==
    /\ Len(part) >= 1
    /\ part[1] = "CON"
    /\ (Len(part) = 1 \/ part[2] = ".")

\* /[<>:"|?*]/ on one component
hasWindowsInvalidChar(part) == Contains(part, "<") \/ Contains(part, ":")

\* /^[A-Za-z]:[\/\\]/
startsWithDrive(s) ==
    /\ Len(s) >= 3
    /\ s[1] = "a" /\ s[2] = ":" /\ IsSeparator(s[3])

\* Lines 76-102: the components checked for Windows-invalid characters.
windowsInvalidCharacters(s) ==
    LET allComponents == SplitComponents(s)
        startIdx == IF startsWithDrive(s) THEN 2 ELSE 1
    IN \E i \in startIdx..Len(allComponents) :
           hasWindowsInvalidChar(allComponents[i])

\* vaultPath !== vaultPath.trim()
hasOuterWhitespace(s) == s # <<>> /\ (s[1] = " " \/ s[Len(s)] = " ")

\* /[\/\\]{2,}/
hasConsecutiveSeparators(s) ==
    \E i \in 1..(Len(s) - 1) : IsSeparator(s[i]) /\ IsSeparator(s[i + 1])

checkPathCharacters(platform, vaultPath) ==
    LET components == SplitComponents(vaultPath) IN
    IF StrLength(vaultPath) > maxPathLength(platform)
        THEN Reason("Path exceeds maximum length")
    ELSE IF \E i \in DOMAIN components :
                StrLength(components[i]) > maxComponentLength
        THEN Reason("Directory/file name too long")
    ELSE IF platform = "win32" /\ matchesDevicePath(vaultPath)
        THEN Reason("Device paths are not allowed")
    ELSE IF platform = "win32" /\ matchesDriveRoot(vaultPath)
        THEN Reason("Cannot use drive root directory")
    ELSE IF platform # "win32" /\ vaultPath = <<"/">>
        THEN Reason("Cannot use filesystem root directory")
    ELSE IF Contains(components, <<".", ".">>) \/ Contains(components, <<".">>)
        THEN Reason("Path cannot contain relative components")
    ELSE IF platform # "win32" /\ Contains(vaultPath, "NUL")
        THEN Reason("Contains null characters")
    ELSE IF Contains(vaultPath, "CTL")
        THEN Reason("Contains non-printable characters")
    ELSE IF platform = "win32"
            /\ \E i \in DOMAIN components : matchesReservedName(components[i])
        THEN Reason("Contains Windows reserved names")
    ELSE IF platform = "win32" /\ windowsInvalidCharacters(vaultPath)
        THEN Reason("Contains characters not allowed on Windows")
    ELSE IF Contains(vaultPath, "FFFD")
        THEN Reason("Contains invalid Unicode characters")
    ELSE IF hasOuterWhitespace(vaultPath)
        THEN Reason("Contains leading or trailing whitespace")
    ELSE IF hasConsecutiveSeparators(vaultPath)
        THEN Reason("Contains consecutive path separators")
    ELSE Null

\* The ways a path string under check begins: nothing, two backslashes (a
\* UNC or device path), a drive letter with its colon.
PathPrefixes == {<<>>, <<"BS", "BS">>, <<"a", ":">>}

InitPathChars ==
    /\ \E p \in Platforms, pre \in PathPrefixes,
          s \in SeqsUpTo(PathTokens, MaxPathTokens) :
            arg = [fn |-> "checkPathCharacters", platform |-> p, path |-> pre \o s]
    /\ ret = Pending
    /\ files = NoFiles
    /\ calls = NoCalls
    /\ now = 0
    /\ dailyNoteConfigCache = Null

CallCheckPathCharacters ==
    /\ arg.fn = "checkPathCharacters"
    /\ ret = Pending
    /\ ret' = checkPathCharacters(arg.platform, arg.path)
    /\ UNCHANGED <<dailyNoteConfigCache, arg, files, calls, now>>

NextPathChars == CallCheckPathCharacters

SpecPathChars == InitPathChars /\ [][NextPathChars]_vars

\* C10 (as stated): the twelve listed checks, each on its own.  Check 6, the
\* null byte, is listed without a platform; check 3 is the prefix \\.\ .
ListedCheckFails(k, platform, s) ==
    LET comps == SplitComponents(s)
        win == platform = "win32"
        driveLed == Len(s) >= 3 /\ s[1] = "a" /\ s[2] = ":"
                    /\ s[3] \in {"/", "BS"}
    IN
    CASE k = 1 -> StrLength(s) > (IF win THEN 260 ELSE 4096)
      [] k = 2 -> \E i \in DOMAIN comps : StrLength(comps[i]) > 255
      [] k = 3 -> win /\ Len(s) >= 4 /\ SubSeq(s, 1, 4) = <<"BS", "BS", ".", "BS">>
      [] k = 4 -> IF win THEN s \in {<<"a", ":">>, <<"a", ":", "BS">>}
                  ELSE s = <<"/">>
      [] k = 5 -> \E i \in DOMAIN comps : comps[i] \in {<<".">>, <<".", ".">>}
      [] k = 6 -> \E i \in DOMAIN s : s[i] = "NUL"
      [] k = 7 -> \E i \in DOMAIN s : s[i] = "CTL"
      [] k = 8 -> win /\ \E i \in DOMAIN comps :
                      \/ comps[i] = <<"CON">>
                      \/ Len(comps[i]) >= 2 /\ SubSeq(comps[i], 1, 2) = <<"CON", ".">>
      [] k = 9 -> win /\ \E i \in DOMAIN comps :
                      /\ i > 1 \/ ~driveLed
                      /\ \E j \in DOMAIN comps[i] : comps[i][j] \in {"<", ":"}
      [] k = 10 -> \E i \in DOMAIN s : s[i] = "FFFD"
      [] k = 11 -> Len(s) >= 1 /\ " " \in {s[1], s[Len(s)]}
      [] k = 12 -> \E i \in DOMAIN s :
                      i < Len(s) /\ s[i] \in {"/", "BS"} /\ s[i + 1] \in {"/", "BS"}

\* The checks as the code applies them: the null-byte check on POSIX only,
\* the device-path check on two backslashes, any character, a backslash.
AppliedCheckFails(k, platform, s) ==
    CASE k = 3 -> /\ platform = "win32" /\ Len(s) >= 4
                  /\ <<s[1], s[2], s[4]>> = <<"BS", "BS", "BS">>
      [] k = 6 -> platform # "win32" /\ ListedCheckFails(6, platform, s)
      [] OTHER -> ListedCheckFails(k, platform, s)

ListedReason(k, platform) ==
    CASE k = 1 -> "Path exceeds maximum length"
      [] k = 2 -> "Directory/file name too long"
      [] k = 3 -> "Device paths are not allowed"
      [] k = 4 -> IF platform = "win32" THEN "Cannot use drive root directory"
                  ELSE "Cannot use filesystem root directory"
      [] k = 5 -> "Path cannot contain relative components"
      [] k = 6 -> "Contains null characters"
      [] k = 7 -> "Contains non-printable characters"
      [] k = 8 -> "Contains Windows reserved names"
      [] k = 9 -> "Contains characters not allowed on Windows"
      [] k = 10 -> "Contains invalid Unicode characters"
      [] k = 11 -> "Contains leading or trailing whitespace"
      [] k = 12 -> "Contains consecutive path separators"

\* The reason of the first failing check in the listed order, or null.
FirstFailure(Fails(_, _, _), platform, s) ==
    LET failing == {k \in 1..12 : Fails(k, platform, s)} IN
    IF failing = {} THEN Null
    ELSE Reason(ListedReason(CHOOSE k \in failing : \A j \in failing : k <= j,
                             platform))

PathCharsReturned == arg.fn = "checkPathCharacters" /\ ret # Pending

MaxSegments == 3

\* "..x" is a directory name that begins with two dots, "q?" a name with a
\* character that normalizePath refuses in a file name.
SegmentTokens == {"", ".", "..", "a", "b", "..x", "q?"}

AbsolutePaths == SeqsUpTo(SegmentTokens, MaxSegments) \ {<<>>}

\* path.normalize on an absolute POSIX path, without the trailing slash it
\* keeps: "" and "." segments dropped, ".." resolved, ".." at the root dropped.
RECURSIVE ResolveSegments(_, _)
ResolveSegments(segs, acc) ==
    IF segs = <<>> THEN acc
    ELSE LET h == Head(segs) IN
         IF h \in {"", "."} THEN ResolveSegments(Tail(segs), acc)
         ELSE IF h = ".."
              THEN ResolveSegments(Tail(segs),
                       IF acc = <<>> THEN acc ELSE SubSeq(acc, 1, Len(acc) - 1))
         ELSE ResolveSegments(Tail(segs), Append(acc, h))

\* path.normalize(p).replace(/[\/\\]+$/, ""): the root "/" becomes "".
normalizeAndStrip(p) == ResolveSegments(p, <<>>)

\* /[<>"|?*]/ on the last component (the platform is not win32)
hasInvalidFilenameChars(filename) == filename = "q?"

\* normalizePath on a string checkPathOverlap hands it: TRUE when it throws.
normalizePathThrows(inputPath) ==
    \/ inputPath = <<>>
    \/ hasInvalidFilenameChars(inputPath[Len(inputPath)])

\* Length of the longest common prefix of two segment sequences.
RECURSIVE CommonPrefix(_, _)
CommonPrefix(p, q) ==
    IF p = <<>> \/ q = <<>> \/ Head(p) # Head(q) THEN 0
    ELSE 1 + CommonPrefix(Tail(p), Tail(q))

\* path.relative(from, to) on normalized absolute paths.
pathRelative(from, to) ==
    LET c == CommonPrefix(from, to) IN
    [i \in 1..(Len(from) - c) |-> ".."] \o SubSeq(to, c + 1, Len(to))

\* relative.startsWith(".."): a string test, true of any first segment that
\* begins with two dots.
relativeStartsWithDotDot(relative) ==
    relative # <<>> /\ relative[1] \in {"..", "..x"}

\* isParentPath after both normalizePath calls returned.
isParentPath(parent, child) ==
    IF parent = child THEN FALSE
    ELSE LET relative == pathRelative(parent, child) IN
         relative # <<>> /\ ~relativeStartsWithDotDot(relative)

checkPathOverlap(paths) ==
    LET normalizedPaths == [i \in DOMAIN paths |-> normalizeAndStrip(paths[i])]
        duplicate == \E i, j \in DOMAIN paths :
                        i < j /\ normalizedPaths[i] = normalizedPaths[j]
        overlapping ==
            \E i, j \in DOMAIN paths :
                /\ i < j
                /\ \/ normalizePathThrows(normalizedPaths[i])
                   \/ normalizePathThrows(normalizedPaths[j])
                   \/ isParentPath(normalizedPaths[i], normalizedPaths[j])
                   \/ isParentPath(normalizedPaths[j], normalizedPaths[i])
    IN IF duplicate \/ overlapping THEN Thrown("InvalidRequest")
       ELSE Returned("ok")

OverlapArgs ==
    {[fn |-> "checkPathOverlap", paths |-> <<p, q>>] :
        p \in AbsolutePaths, q \in AbsolutePaths}

InitOverlap ==
    /\ arg \in OverlapArgs
    /\ ret = Pending
    /\ files = NoFiles
    /\ calls = NoCalls
    /\ now = 0
    /\ dailyNoteConfigCache = Null

CallCheckPathOverlap ==
    /\ arg.fn = "checkPathOverlap"
    /\ ret = Pending
    /\ ret' = checkPathOverlap(arg.paths)
    /\ UNCHANGED <<dailyNoteConfigCache, arg, files, calls, now>>

NextOverlap == CallCheckPathOverlap

SpecOverlap == InitOverlap /\ [][NextOverlap]_vars

\* The directory a path names: its segments with "", "." and ".." resolved.
RECURSIVE Directory(_)
Directory(p) ==
    IF p = <<>> THEN <<>>
    ELSE LET front == Directory(SubSeq(p, 1, Len(p) - 1))
             last == p[Len(p)]
         IN CASE last \in {"", "."} -> front
              [] last = ".." -> IF front = <<>> THEN <<>>
                                ELSE SubSeq(front, 1, Len(front) - 1)
              [] OTHER -> Append(front, last)

IsAncestor(d, e) == Len(d) < Len(e) /\ SubSeq(e, 1, Len(d)) = d

\* Two entries name the same directory, or one names an ancestor of another.
Overlaps(paths) ==
    \E i, j \in DOMAIN paths :
        /\ i # j
        /\ \/ Directory(paths[i]) = Directory(paths[j])
           \/ IsAncestor(Directory(paths[i]), Directory(paths[j]))

OverlapReturned == arg.fn = "checkPathOverlap" /\ ret # Pending

\* C9: checkPathOverlap throws if and only if two entries are identical after
\* normalization or one is an ancestor directory of another, and the outcome
\* is the same for the entries in the other order.
C9_OverlapThrowsIffOverlapping ==
    OverlapReturned =>
        /\ (ret.kind = "throw") <=> Overlaps(arg.paths)
        /\ ret = checkPathOverlap(<<arg.paths[2], arg.paths[1]>>)

(***************************************************************************)
(* parseNote / stringifyNote (src/utils/tags.ts) and the content that      *)
(* editNote prepares (src/tools/edit-note/index.ts)                        *)
(*                                                                         *)
(* Note text is a sequence of tokens: "NL" and "CR" the line terminators,  *)
(* "SP" a space, "T" a character of text, "D" the three dashes "---",      *)
(* "K1" and "K2" the YAML entries "k1: v1" and "k2: v2", "BAD" a line      *)
(* that is not valid YAML.                                                 *)
(***************************************************************************)

\* Bound on the number of tokens of a note body and of the new content.
MaxTextTokens == 2

TextTokens == {"NL", "SP", "T", "D"}

Whitespace == {"NL", "CR", "SP"}

\* Entries for the key aliases: lists of the aliases x and y, and a string.
AliasEntries == {"A[]", "A[x]", "A[y]", "A[x,y]", "A=x"}

YamlEntries == {"K1", "K2"} \cup AliasEntries

\* The key of an entry.
KeyOf(entry) == IF entry \in AliasEntries THEN "aliases" ELSE entry

\* String.prototype.trim
RECURSIVE TrimStart(_)
TrimStart(s) ==
    IF s # <<>> /\ Head(s) \in Whitespace THEN TrimStart(Tail(s)) ELSE s

RECURSIVE TrimEnd(_)
TrimEnd(s) ==
    IF s # <<>> /\ s[Len(s)] \in Whitespace
    THEN TrimEnd(SubSeq(s, 1, Len(s) - 1)) ELSE s

Trim(s) == TrimEnd(TrimStart(s))

Drop(s, n) == SubSeq(s, n + 1, Len(s))

StartsWith(s, prefix) ==
    Len(s) >= Len(prefix) /\ SubSeq(s, 1, Len(prefix)) = prefix

\* Tokens consumed at the head of s by the pattern \r?\n, or 0 for no match.
LineBreakAt(s) ==
    IF StartsWith(s, <<"NL">>) THEN 1
    ELSE IF StartsWith(s, <<"CR", "NL">>) THEN 2
    ELSE 0

\* Mutant: the pattern without its optional line end.
OptionalBreakAt_None(s) == 0

\* Tokens consumed at the head of s by the pattern \r?\n? (greedy).
OptionalBreakAt(s) ==
    IF StartsWith(s, <<"CR", "NL">>) THEN 2
    ELSE IF StartsWith(s, <<"CR">>) \/ StartsWith(s, <<"NL">>) THEN 1
    ELSE 0

\* Tokens consumed at the head of s by the pattern \r?\n---, or 0.
ClosingAt(s) ==
    LET b == LineBreakAt(s) IN
    IF b > 0 /\ StartsWith(Drop(s, b), <<"D">>) THEN b + 1 ELSE 0

\* Tokens consumed at the head of s by ^---\r?\n, or 0.
OpeningAt(s) ==
    IF StartsWith(s, <<"D">>) /\ LineBreakAt(Drop(s, 1)) > 0
    THEN 1 + LineBreakAt(Drop(s, 1)) ELSE 0

\* split(/\r?\n/): the lines of a text, split at "NL", a "CR" before it
\* dropped.
RECURSIVE SplitLines(_, _)
SplitLines(s, cur) ==
    IF s = <<>> THEN <<cur>>
    ELSE IF Head(s) = "NL" THEN <<cur>> \o SplitLines(Tail(s), <<>>)
    ELSE IF Head(s) = "CR" /\ StartsWith(Tail(s), <<"NL">>) THEN SplitLines(Tail(s), cur)
    ELSE SplitLines(Tail(s), Append(cur, Head(s)))

NoDuplicates(s) == \A i, j \in DOMAIN s : s[i] = s[j] => i = j

YamlMap(entries) == [kind |-> "map", entries |-> entries]
YamlScalar(text) == [kind |-> "scalar", entries |-> text]
YamlNull == [kind |-> "null", entries |-> <<>>]
YamlError == [kind |-> "error", entries |-> <<>>]

\* parse of the yaml package on a block: the entries of a mapping in their
\* order, a plain scalar, null for a blank block, or an error (an invalid
\* line, a second document, a repeated key, text mixed with entries, an
\* entry that does not start its line).
parseYaml(block) ==
    LET lines == SplitLines(block, <<>>)
        solid == SelectSeq(lines, LAMBDA l : Trim(l) # <<>>)
        entryLine(l) == Len(TrimEnd(l)) = 1 /\ l[1] \in YamlEntries
        textLine(l) == \A i \in DOMAIN l : l[i] \in {"T", "SP"}
    IN IF solid = <<>> THEN YamlNull
       ELSE IF \A i \in DOMAIN solid : entryLine(solid[i])
            THEN LET entries == [i \in DOMAIN solid |-> solid[i][1]] IN
                 IF NoDuplicates([i \in DOMAIN entries |-> KeyOf(entries[i])])
                 THEN YamlMap(entries) ELSE YamlError
       ELSE IF Len(solid) = 1 /\ textLine(solid[1])
            THEN YamlScalar(Trim(solid[1]))
       ELSE YamlError

\* stringify of the yaml package, trimmed: one entry per line.
RECURSIVE JoinLines(_)
JoinLines(entries) ==
    IF entries = <<>> THEN <<>>
    ELSE IF Len(entries) = 1 THEN <<Head(entries)>>
    ELSE <<Head(entries), "NL">> \o JoinLines(Tail(entries))

stringifyYaml(frontmatter) ==
    IF frontmatter.kind = "map" THEN JoinLines(frontmatter.entries)
    ELSE frontmatter.entries

ParsedNote(fm, content, has) ==
    [frontmatter |-> fm, content |-> content, hasFrontmatter |-> has, throws |-> FALSE]

ParseError ==
    [frontmatter |-> YamlError, content |-> <<>>, hasFrontmatter |-> FALSE,
     throws |-> TRUE]

\* The least n for which the pattern \r?\n--- matches at s after n tokens, or
\* -1: the lazy group ([\s\S]*?) of frontmatterRegex.
RECURSIVE LazyGroupLength(_, _)
LazyGroupLength(s, n) ==
    IF n > Len(s) THEN -1
    ELSE IF ClosingAt(Drop(s, n)) > 0 THEN n
    ELSE LazyGroupLength(s, n + 1)

parseNote(content) ==
    LET open == OpeningAt(content)
        afterOpen == Drop(content, open)
        \* emptyFrontmatterRegex: ^---\r?\n---\r?\n?([\s\S]*)$
        emptyMatch == open > 0 /\ StartsWith(afterOpen, <<"D">>)
        emptyRest == Drop(afterOpen, 1)
        \* frontmatterRegex: ^---\r?\n([\s\S]*?)\r?\n---\r?\n?([\s\S]*)$
        group == IF open > 0 THEN LazyGroupLength(afterOpen, 0) ELSE -1
    IN IF emptyMatch
       THEN ParsedNote(YamlMap(<<>>), Drop(emptyRest, OptionalBreakAt(emptyRest)), TRUE)
       ELSE IF group < 0
       THEN ParsedNote(YamlMap(<<>>), content, FALSE)
       ELSE LET block == SubSeq(afterOpen, 1, group)
                afterClose == Drop(afterOpen, group + ClosingAt(Drop(afterOpen, group)))
                rest == Drop(afterClose, OptionalBreakAt(afterClose))
                yaml == parseYaml(block)
            IN IF yaml.kind = "error" THEN ParseError
               ELSE ParsedNote(IF yaml.kind = "null" THEN YamlMap(<<>>) ELSE yaml,
                               rest, TRUE)

\* Mutant: stringifyNote that writes a block for every note that has one.
stringifyNote_AlwaysBlock(parsed) ==
    IF ~parsed.hasFrontmatter THEN parsed.content
    ELSE <<"D", "NL">> \o stringifyYaml(parsed.frontmatter)
         \o <<"NL", "D", "NL", "NL">> \o Trim(parsed.content)

\* Mutant: stringifyNote that writes the body alone.
stringifyNote_BodyOnly(parsed) == parsed.content

stringifyNote(parsed) ==
    IF ~parsed.hasFrontmatter \/ parsed.frontmatter.entries = <<>>
    THEN parsed.content
    ELSE <<"D", "NL">> \o stringifyYaml(parsed.frontmatter)
         \o <<"NL", "D", "NL", "NL">> \o Trim(parsed.content)

\* Mutant: the new content alone is written.
finalContentToWrite_NewOnly(operation, existingContent, content) ==
    Returned(Trim(content))

\* Lines 84-115 of editNote: the content to write, or the error parseNote
\* raises.
finalContentToWrite(operation, existingContent, content) ==
    LET trimmedExisting == Trim(existingContent)
        trimmedContent == Trim(content)
    IN CASE operation = "append" ->
              Returned(IF trimmedExisting # <<>>
                       THEN trimmedExisting \o <<"NL", "NL">> \o trimmedContent
                       ELSE trimmedContent)
         [] operation = "prepend" ->
              Returned(IF trimmedExisting # <<>>
                       THEN trimmedContent \o <<"NL", "NL">> \o trimmedExisting
                       ELSE trimmedContent)
         [] operation = "replace" ->
              LET parsedNote == parseNote(existingContent) IN
              IF parsedNote.throws THEN Thrown("InvalidParams")
              ELSE Returned(stringifyNote(
                       [parsedNote EXCEPT !.content = trimmedContent]))

EditOperations == {"append", "prepend", "replace"}

\* What a note can begin with: no frontmatter, an empty block, blocks with
\* one and two entries, CRLF line ends, no line end after the block, a blank
\* block, a scalar block, invalid YAML, a repeated key.
FrontmatterBlocks ==
    {<<>>,
     <<"D", "NL", "D", "NL">>,
     <<"D", "NL", "K1", "NL", "D", "NL">>,
     <<"D", "NL", "K1", "NL", "K2", "NL", "D", "NL">>,
     <<"D", "NL", "K2", "NL", "K1", "NL", "D", "NL">>,
     <<"D", "CR", "NL", "K1", "CR", "NL", "D", "CR", "NL">>,
     <<"D", "NL", "K1", "NL", "D">>,
     <<"D", "NL", "NL", "D", "NL">>,
     <<"D", "NL", "T", "NL", "D", "NL">>,
     <<"D", "NL", "BAD", "NL", "D", "NL">>,
     <<"D", "NL", "K1", "NL", "K1", "NL", "D", "NL">>}

LeadingText == {<<>>, <<"NL">>}

\* The schema's min(1): the new content has at least one character.
NewContents == SeqsUpTo(TextTokens, MaxTextTokens) \ {<<>>}

InitEditContent ==
    /\ \E op \in EditOperations, lead \in LeadingText, block \in FrontmatterBlocks,
          body \in SeqsUpTo(TextTokens, MaxTextTokens), c \in NewContents :
            arg = [fn |-> "editContent", operation |-> op,
                   existing |-> lead \o block \o body, content |-> c]
    /\ ret = Pending
    /\ files = NoFiles
    /\ calls = NoCalls
    /\ now = 0
    /\ dailyNoteConfigCache = Null

PrepareContent ==
    /\ arg.fn = "editContent"
    /\ ret = Pending
    /\ ret' = finalContentToWrite(arg.operation, arg.existing, arg.content)
    /\ UNCHANGED <<dailyNoteConfigCache, arg, files, calls, now>>

NextEditContent == PrepareContent

SpecEditContent == InitEditContent /\ [][NextEditContent]_vars

ContentPrepared == arg.fn = "editContent" /\ ret # Pending

HasMapping(parsed) ==
    /\ ~parsed.throws
    /\ parsed.hasFrontmatter
    /\ parsed.frontmatter.kind = "map"
    /\ parsed.frontmatter.entries # <<>>

\* C6: a replace on a note with a non-empty frontmatter mapping writes a note
\* whose parsed frontmatter mapping equals the one before the edit and whose
\* body, the text after the block and its blank line, is the trimmed new
\* content.
C6_ReplaceKeepsFrontmatter ==
    (ContentPrepared /\ arg.operation = "replace" /\ HasMapping(parseNote(arg.existing)))
    => /\ ret.kind = "return"
       /\ LET before == parseNote(arg.existing)
              after == parseNote(ret.value)
          IN /\ HasMapping(after)
             /\ after.frontmatter = before.frontmatter
             /\ after.content = <<"NL">> \o Trim(arg.content)

\* C6 witness: a replace rewrote a note that has two frontmatter entries and
\* a body.
C6_Witness ==
    /\ ContentPrepared
    /\ arg.operation = "replace"
    /\ HasMapping(parseNote(arg.existing))
    /\ Len(parseNote(arg.existing).frontmatter.entries) = 2
    /\ Trim(parseNote(arg.existing).content) # <<>>
    /\ ret.kind = "return"
    /\ ret.value # arg.existing

\* The text the claim describes for append and prepend.
JoinedWithBlankLine(first, second) ==
    IF first # <<>> /\ second # <<>> THEN first \o <<"NL", "NL">> \o second
    ELSE IF first # <<>> THEN first
    ELSE second

\* C7: append writes E, a blank line, C when both are non-empty and just the
\* non-empty one when either is empty (E, C the trimmed existing and new
\* content); prepend is the mirror image.
C7_AppendPrependJoin ==
    (ContentPrepared /\ arg.operation \in {"append", "prepend"})
    => LET E == Trim(arg.existing)
           C == Trim(arg.content)
       IN ret = Returned(IF arg.operation = "append"
                         THEN JoinedWithBlankLine(E, C)
                         ELSE JoinedWithBlankLine(C, E))

(***************************************************************************)
(* Tool calls on the filesystem.                                           *)
(*                                                                         *)
(* files maps each file that exists to its content.  A file is named by    *)
(* the segments of its absolute path and a suffix: <<>> for the path       *)
(* itself, <<t>> for the path followed by ".t.backup".  calls holds the    *)
(* tool calls in flight; every awaited filesystem operation of a handler   *)
(* is one step, taken together with the synchronous code that follows it,  *)
(* and every operation can fail.  now is the value of Date.now().          *)
(***************************************************************************)

\* The vault root and the working directory of the server process.
Vault == <<"vault">>

Cwd == <<"srv">>

FileAt(p) == [path |-> p, suffix |-> <<>>]

\* `${fullPath}.${timestamp}.backup`
BackupAt(p, timestamp) == [path |-> p, suffix |-> <<timestamp>>]

Exists(fs, f) == f \in DOMAIN fs

WriteFile(fs, f, content) ==
    [x \in DOMAIN fs \cup {f} |-> IF x = f THEN content ELSE fs[x]]

Unlink(fs, f) == [x \in DOMAIN fs \ {f} |-> fs[x]]

\* fs.copyFile that succeeds.
CopyFile(fs, from, to) == WriteFile(fs, to, fs[from])

\* What a failed write of content can leave behind: a proper prefix of it.
ProperPrefixes(content) == {SubSeq(content, 1, k) : k \in 0..(Len(content) - 1)}

\* fileExists: stat and isFile, false on every error of stat.
fileExistsResults(fs, f) == {Exists(fs, f), FALSE}

\* Names that end with ".md".
MarkdownNames == {"n.md", "x.md", "m.md", "passwd.md"}

\* normalizePath on a relative path: one that starts with ./ or ../ is
\* resolved against the working directory, any other is returned as it is.
normalizeRelativePath(inputPath) ==
    IF Len(inputPath) > 1 /\ inputPath[1] \in {".", ".."}
    THEN ResolveSegments(Cwd \o inputPath, <<>>)
    ELSE inputPath

ensureMarkdownExtension(filePath) ==
    LET normalized == normalizeRelativePath(filePath)
        last == normalized[Len(normalized)]
    IN IF last \in MarkdownNames THEN normalized
       ELSE [normalized EXCEPT ![Len(normalized)] = last \o ".md"]

\* path.join: the segments of both, normalized.
pathJoin(base, rest) == ResolveSegments(base \o rest, <<>>)

\* checkPathSafety is an async function: a call returns a promise.
checkPathSafety(targetPath) == [kind |-> "promise"]

\* The ! operator: null, undefined, false, 0, "" and NaN are falsy.
IsTruthy(v) == v.kind \notin {"null", "undefined", "false"}

\* validateVaultPath throws when !checkPathSafety(targetPath).
validateVaultPathThrows(vaultPath, targetPath) == ~IsTruthy(checkPathSafety(targetPath))

\* Error helpers of utils/errors.
createNoteNotFoundError == "NotFound"

createNoteExistsError == "AlreadyExists"

handleFsError == "IOFailure"

Absent == <<"ABSENT">>

ContentAt(fs, f) == IF Exists(fs, f) THEN fs[f] ELSE Absent

NewCall(tool, notePath, operation, content) ==
    [tool |-> tool, pc |-> "start", path |-> notePath, operation |-> operation,
     content |-> content, fullPath |-> <<>>, backupPath |-> BackupAt(<<>>, 0),
     pending |-> <<>>, error |-> "none", result |-> "none", before |-> Absent,
     line |-> 0, found |-> "none", replaced |-> FALSE,
     touched |-> FALSE, snapshot |-> "none", wrote |-> "none",
     committed |-> "none", restored |-> "none", cleaned |-> "none"]

Finished(c, result) == [c EXCEPT !.pc = "done", !.result = result]

Failed(c, error) == [c EXCEPT !.pc = "rb_exists", !.error = error]

\* editNote, lines 60-66: the paths and validateVaultPath.
EditStart(i) ==
    LET c == calls[i] IN
    /\ c.tool = "edit-note" /\ c.pc = "start"
    /\ calls' = [calls EXCEPT ![i] =
         IF normalizePathThrows(c.path) THEN Finished(c, "InvalidRequest")
         ELSE LET fullPath == pathJoin(Vault, ensureMarkdownExtension(c.path)) IN
              IF validateVaultPathThrows(Vault, fullPath)
              THEN Finished(c, "InvalidRequest")
              ELSE [c EXCEPT !.pc = "exists", !.fullPath = fullPath,
                             !.before = ContentAt(files, FileAt(fullPath))]]
    /\ UNCHANGED <<dailyNoteConfigCache, arg, ret, files, now>>

\* Lines 68-74: fileExists, then the backup path from Date.now().
EditCheckExists(i) ==
    LET c == calls[i] IN
    /\ c.tool = "edit-note" /\ c.pc = "exists"
    /\ \E found \in fileExistsResults(files, FileAt(c.fullPath)) :
         calls' = [calls EXCEPT ![i] =
           IF found
           THEN [c EXCEPT !.pc = "backup", !.touched = TRUE,
                          !.backupPath = BackupAt(c.fullPath, now)]
           ELSE [Finished(c, createNoteNotFoundError) EXCEPT !.touched = TRUE]]
    /\ UNCHANGED <<dailyNoteConfigCache, arg, ret, files, now>>

\* Line 78: fs.copyFile(fullPath, backupPath).  A failed copy leaves nothing
\* or a part of the note at the backup path.
EditSnapshot(i) ==
    LET c == calls[i]
        note == FileAt(c.fullPath)
    IN
    /\ c.tool = "edit-note" /\ c.pc = "backup"
    /\ \/ /\ Exists(files, note)
          /\ files' = CopyFile(files, note, c.backupPath)
          /\ calls' = [calls EXCEPT ![i] = [c EXCEPT !.pc = "read", !.snapshot = "ok"]]
       \/ /\ \/ files' = files
             \/ /\ Exists(files, note)
                /\ \E part \in ProperPrefixes(files[note]) :
                     files' = WriteFile(files, c.backupPath, part)
          /\ calls' = [calls EXCEPT ![i] =
                [Failed(c, handleFsError) EXCEPT !.snapshot = "failed"]]
    /\ UNCHANGED <<dailyNoteConfigCache, arg, ret, now>>

\* Lines 81-115: fs.readFile, then the content to write.
EditRead(i) ==
    LET c == calls[i]
        note == FileAt(c.fullPath)
    IN
    /\ c.tool = "edit-note" /\ c.pc = "read"
    /\ \/ /\ Exists(files, note)
          /\ LET final == finalContentToWrite(c.operation, files[note], c.content) IN
             calls' = [calls EXCEPT ![i] =
                IF final.kind = "throw" THEN Failed(c, final.code)
                ELSE [c EXCEPT !.pc = "write", !.pending = final.value]]
       \/ calls' = [calls EXCEPT ![i] = Failed(c, handleFsError)]
    /\ UNCHANGED <<dailyNoteConfigCache, arg, ret, files, now>>

\* Line 118: fs.writeFile(fullPath, finalContentToWrite).  A failed write
\* leaves the note as it was or with a part of the new content.
EditWrite(i) ==
    LET c == calls[i]
        note == FileAt(c.fullPath)
    IN
    /\ c.tool = "edit-note" /\ c.pc = "write"
    /\ \/ /\ files' = WriteFile(files, note, c.pending)
          /\ calls' = [calls EXCEPT ![i] = [c EXCEPT !.pc = "unlink", !.wrote = "ok"]]
       \/ /\ \/ files' = files
             \/ \E part \in ProperPrefixes(c.pending) :
                  files' = WriteFile(files, note, part)
          /\ calls' = [calls EXCEPT ![i] =
                [Failed(c, handleFsError) EXCEPT !.wrote = "failed"]]
    /\ UNCHANGED <<dailyNoteConfigCache, arg, ret, now>>

\* Lines 121-132: fs.unlink(backupPath), then the success result.
EditCommit(i) ==
    LET c == calls[i] IN
    /\ c.tool = "edit-note" /\ c.pc = "unlink"
    /\ \/ /\ Exists(files, c.backupPath)
          /\ files' = Unlink(files, c.backupPath)
          /\ calls' = [calls EXCEPT ![i] =
                [Finished(c, "success") EXCEPT !.committed = "ok"]]
       \/ /\ files' = files
          /\ calls' = [calls EXCEPT ![i] =
                [Failed(c, handleFsError) EXCEPT !.committed = "failed"]]
    /\ UNCHANGED <<dailyNoteConfigCache, arg, ret, now>>

\* Lines 133-136 and 154-159: the catch block asks whether the backup exists;
\* without one it throws the original error.
EditRollbackExists(i) ==
    LET c == calls[i] IN
    /\ c.tool = "edit-note" /\ c.pc = "rb_exists"
    /\ \E found \in fileExistsResults(files, c.backupPath) :
         calls' = [calls EXCEPT ![i] =
           IF found THEN [c EXCEPT !.pc = "rb_copy"] ELSE Finished(c, c.error)]
    /\ UNCHANGED <<dailyNoteConfigCache, arg, ret, files, now>>

\* Mutant: a copy-back with source and destination exchanged.
restoreFromBackup_Exchanged(fs, backupPath, fullPath) == CopyFile(fs, fullPath, backupPath)

\* Line 137: fs.copyFile(backupPath, fullPath) that succeeds.
restoreFromBackup(fs, backupPath, fullPath) == CopyFile(fs, backupPath, fullPath)

\* Lines 137 and 140-152: the copy-back; a failure throws the rollback error.
EditRollbackCopy(i) ==
    LET c == calls[i]
        note == FileAt(c.fullPath)
    IN
    /\ c.tool = "edit-note" /\ c.pc = "rb_copy"
    /\ \/ /\ Exists(files, c.backupPath)
          /\ files' = restoreFromBackup(files, c.backupPath, note)
          /\ calls' = [calls EXCEPT ![i] = [c EXCEPT !.pc = "rb_unlink", !.restored = "ok"]]
       \/ /\ \/ files' = files
             \/ /\ Exists(files, c.backupPath)
                /\ \E part \in ProperPrefixes(files[c.backupPath]) :
                     files' = WriteFile(files, note, part)
          /\ calls' = [calls EXCEPT ![i] =
                [Finished(c, "InternalError") EXCEPT !.restored = "failed"]]
    /\ UNCHANGED <<dailyNoteConfigCache, arg, ret, now>>

\* Lines 138 and 140-159: the backup is deleted after the copy-back; a
\* failure throws the rollback error, success rethrows the original error.
EditRollbackUnlink(i) ==
    LET c == calls[i] IN
    /\ c.tool = "edit-note" /\ c.pc = "rb_unlink"
    /\ \/ /\ Exists(files, c.backupPath)
          /\ files' = Unlink(files, c.backupPath)
          /\ calls' = [calls EXCEPT ![i] =
                [Finished(c, c.error) EXCEPT !.cleaned = "ok"]]
       \/ /\ files' = files
          /\ calls' = [calls EXCEPT ![i] =
                [Finished(c, "InternalError") EXCEPT !.cleaned = "failed"]]
    /\ UNCHANGED <<dailyNoteConfigCache, arg, ret, now>>

\* Request paths: a note of the vault with and without its extension, a
\* note that does not exist, two paths that climb out of the vault, and a
\* name normalizePath rejects.
RequestPaths ==
    {<<"n.md">>, <<"n">>, <<"m">>, <<"a", "..", "..", "x">>,
     <<"..", "..", "etc", "passwd">>, <<"q?">>}

\* Contents of the note /vault/n.md before the call.
NoteContents ==
    {<<"T", "SP", "T">>,
     <<"D", "NL", "K1", "NL", "D", "NL", "T">>,
     <<"D", "NL", "BAD", "NL", "D", "NL", "T">>}

EditContents == {<<"T">>, <<"SP">>, <<"T", "NL", "T">>}

\* The file /x.md lies outside the vault.
InitialFiles(noteContent) ==
    WriteFile(WriteFile(NoFiles, FileAt(<<"vault", "n.md">>), noteContent),
              FileAt(<<"x.md">>), <<"T", "T">>)

InitEdit ==
    /\ arg = NoArg
    /\ ret = Pending
    /\ now = 0
    /\ dailyNoteConfigCache = Null
    /\ \E a \in NoteContents : files = InitialFiles(a)
    /\ \E r \in RequestPaths, op \in EditOperations, c \in EditContents :
         calls = <<NewCall("edit-note", r, op, c)>>

NextEdit ==
    \/ \E i \in DOMAIN calls : EditStart(i)
    \/ \E i \in DOMAIN calls : EditCheckExists(i)
    \/ \E i \in DOMAIN calls : EditSnapshot(i)
    \/ \E i \in DOMAIN calls : EditRead(i)
    \/ \E i \in DOMAIN calls : EditWrite(i)
    \/ \E i \in DOMAIN calls : EditCommit(i)
    \/ \E i \in DOMAIN calls : EditRollbackExists(i)
    \/ \E i \in DOMAIN calls : EditRollbackCopy(i)
    \/ \E i \in DOMAIN calls : EditRollbackUnlink(i)

SpecEdit == InitEdit /\ [][NextEdit]_vars

EditCalls == {i \in DOMAIN calls : calls[i].tool = "edit-note"}

\* The joined path is neither the vault root nor below it.
OutsideVault(p) == ~StartsWith(p, Vault)

\* C1: when joining the vault root and the request path gives a path outside
\* the vault, validateVaultPath raises InvalidRequest and the tool performs
\* no filesystem operation on the path.
C1_EscapingPathRejected ==
    \A i \in EditCalls :
        (calls[i].pc # "start" /\ OutsideVault(pathJoin(Vault, calls[i].path)))
        => /\ calls[i].pc = "done"
           /\ calls[i].result = "InvalidRequest"
           /\ ~calls[i].touched

\* C2 as stated: after a failed write, a copy-back that succeeds leaves the
\* note at its content A and no backup of the call; a copy-back that fails
\* leaves the backup in place.
C2_RollbackAsStated ==
    \A i \in EditCalls :
        LET c == calls[i] IN
        (c.pc = "done" /\ c.wrote = "failed")
        => /\ c.restored = "ok" =>
                /\ files[FileAt(c.fullPath)] = c.before
                /\ ~Exists(files, c.backupPath)
           /\ c.restored = "failed" => Exists(files, c.backupPath)

\* C2: after a failed write, a copy-back and a deletion of the backup that
\* both succeed leave the note at its content A and no backup of the call;
\* when the copy-back or the deletion fails the backup is still there.
C2_RollbackRestores ==
    \A i \in EditCalls :
        LET c == calls[i] IN
        (c.pc = "done" /\ c.wrote = "failed")
        => /\ (c.restored = "ok" /\ c.cleaned = "ok") =>
                /\ files[FileAt(c.fullPath)] = c.before
                /\ ~Exists(files, c.backupPath)
           /\ (c.restored = "failed" \/ c.cleaned = "failed") =>
                Exists(files, c.backupPath)

\* C2 witness: a write failed leaving part of the new content, and the
\* copy-back and the deletion of the backup put the note back.
C2_Witness ==
    \E i \in EditCalls :
        LET c == calls[i] IN
        /\ c.pc = "done" /\ c.wrote = "failed"
        /\ c.restored = "ok" /\ c.cleaned = "ok"
        /\ c.pending # c.before
        /\ files[FileAt(c.fullPath)] = c.before
        /\ ~Exists(files, c.backupPath)

\* C3: once the write of the new content has succeeded the note keeps the
\* new content, and the call ends with its backup deleted.
C3_SuccessfulWriteKept ==
    \A i \in EditCalls :
        LET c == calls[i] IN
        c.wrote = "ok"
        => /\ files[FileAt(c.fullPath)] = c.pending
           /\ c.pc = "done" => ~Exists(files, c.backupPath)

\* C4: when the snapshot fails, the note's content at the end of the call is
\* what it was before the call.
C4_FailedSnapshotLeavesNote ==
    \A i \in EditCalls :
        LET c == calls[i] IN
        (c.pc = "done" /\ c.snapshot = "failed")
        => files[FileAt(c.fullPath)] = c.before

(***************************************************************************)
(* toggle-task (src/tools/toggle-task/index.ts).  "BOX0" is the text       *)
(* "- [ ] " and "BOX1" the text "- [x] ".                                  *)
(***************************************************************************)

RECURSIVE JoinWithNewline(_)
JoinWithNewline(lines) ==
    IF lines = <<>> THEN <<>>
    ELSE IF Len(lines) = 1 THEN Head(lines)
    ELSE Head(lines) \o <<"NL">> \o JoinWithNewline(Tail(lines))

\* Index of the checkbox matched by /^(\s*- \[)([ x])(] .*)/, or 0.
RECURSIVE CheckboxIndex(_, _)
CheckboxIndex(lineContent, k) ==
    IF k > Len(lineContent) THEN 0
    ELSE IF lineContent[k] \in {"BOX0", "BOX1"} THEN k
    ELSE IF lineContent[k] \in {"SP", "CR"} THEN CheckboxIndex(lineContent, k + 1)
    ELSE 0

\* What .* matches at the head of s: the text before the first line
\* terminator.
RECURSIVE UpToLineTerminator(_)
UpToLineTerminator(s) ==
    IF s = <<>> \/ Head(s) \in {"CR", "NL"} THEN <<>>
    ELSE <<Head(s)>> \o UpToLineTerminator(Tail(s))

\* Mutant: the content is written back as it was read.
toggleTaskContent_Same(content, targetLineNumber) == Returned(content)

\* Lines 62-94 of toggleTaskStatus: the content to write, or the error.
toggleTaskContent(content, targetLineNumber) ==
    LET lines == SplitLines(content, <<>>) IN
    IF targetLineNumber <= 0 \/ targetLineNumber > Len(lines)
    THEN Thrown("InvalidParams")
    ELSE LET lineContent == lines[targetLineNumber]
             box == CheckboxIndex(lineContent, 1)
         IN IF box = 0 THEN Thrown("InvalidParams")
            ELSE LET newState == IF lineContent[box] = "BOX0" THEN "BOX1" ELSE "BOX0"
                     newLineContent == SubSeq(lineContent, 1, box - 1) \o <<newState>>
                                       \o UpToLineTerminator(Drop(lineContent, box))
                 IN Returned(JoinWithNewline(
                        [lines EXCEPT ![targetLineNumber] = newLineContent]))

\* Lines 49-52: the path and validateVaultPath.
ToggleStart(i) ==
    LET c == calls[i]
        noteAbsPath == pathJoin(Vault, c.path)
    IN
    /\ c.tool = "toggle-task" /\ c.pc = "start"
    /\ calls' = [calls EXCEPT ![i] =
         IF validateVaultPathThrows(Vault, noteAbsPath)
         THEN Finished(c, "InvalidRequest")
         ELSE [c EXCEPT !.pc = "exists", !.fullPath = noteAbsPath,
                        !.before = ContentAt(files, FileAt(noteAbsPath))]]
    /\ UNCHANGED <<dailyNoteConfigCache, arg, ret, files, now>>

\* Lines 53-58: fileExists.
ToggleCheckExists(i) ==
    LET c == calls[i] IN
    /\ c.tool = "toggle-task" /\ c.pc = "exists"
    /\ \E found \in fileExistsResults(files, FileAt(c.fullPath)) :
         calls' = [calls EXCEPT ![i] =
           IF found THEN [c EXCEPT !.pc = "read", !.touched = TRUE, !.found = "yes"]
           ELSE [Finished(c, "InvalidParams") EXCEPT !.touched = TRUE, !.found = "no"]]
    /\ UNCHANGED <<dailyNoteConfigCache, arg, ret, files, now>>

\* Lines 61-94: fs.readFile, then the toggled content.
ToggleRead(i) ==
    LET c == calls[i]
        note == FileAt(c.fullPath)
    IN
    /\ c.tool = "toggle-task" /\ c.pc = "read"
    /\ \/ /\ Exists(files, note)
          /\ LET toggled == toggleTaskContent(files[note], c.line) IN
             calls' = [calls EXCEPT ![i] =
                IF toggled.kind = "throw" THEN Finished(c, toggled.code)
                ELSE [c EXCEPT !.pc = "write", !.pending = toggled.value]]
       \/ calls' = [calls EXCEPT ![i] = Finished(c, handleFsError)]
    /\ UNCHANGED <<dailyNoteConfigCache, arg, ret, files, now>>

\* Lines 96-109: fs.writeFile; an error is thrown on, nothing is restored.
ToggleWrite(i) ==
    LET c == calls[i]
        note == FileAt(c.fullPath)
    IN
    /\ c.tool = "toggle-task" /\ c.pc = "write"
    /\ \/ /\ files' = WriteFile(files, note, c.pending)
          /\ calls' = [calls EXCEPT ![i] = [Finished(c, "success") EXCEPT !.wrote = "ok"]]
       \/ /\ \/ files' = files
             \/ \E part \in ProperPrefixes(c.pending) :
                  files' = WriteFile(files, note, part)
          /\ calls' = [calls EXCEPT ![i] =
                [Finished(c, handleFsError) EXCEPT !.wrote = "failed"]]
    /\ UNCHANGED <<dailyNoteConfigCache, arg, ret, now>>

\* Contents of the note /vault/n.md: task lines, text lines, CRLF line ends,
\* a carriage return inside a line.
TaskNotes ==
    {<<"BOX0", "T">>,
     <<"T", "NL", "BOX1", "T", "NL", "T">>,
     <<"BOX0", "T", "CR", "NL", "SP", "BOX1", "T">>,
     <<"BOX1", "T", "CR", "T", "NL", "T">>,
     <<"T", "NL", "T">>}

TogglePaths == {<<"n.md">>, <<"m.md">>, <<"..", "x.md">>}

LineNumbers == 0..3

InitToggle ==
    /\ arg = NoArg
    /\ ret = Pending
    /\ now = 0
    /\ dailyNoteConfigCache = Null
    /\ \E a \in TaskNotes : files = InitialFiles(a)
    /\ \E r \in TogglePaths, n \in LineNumbers :
         calls = <<[NewCall("toggle-task", r, "toggle", <<>>) EXCEPT !.line = n]>>

NextToggle ==
    \/ \E i \in DOMAIN calls : ToggleStart(i)
    \/ \E i \in DOMAIN calls : ToggleCheckExists(i)
    \/ \E i \in DOMAIN calls : ToggleRead(i)
    \/ \E i \in DOMAIN calls : ToggleWrite(i)

SpecToggle == InitToggle /\ [][NextToggle]_vars

\* The tools the claim names as overwriting an existing note.
OverwritingTools == {"edit-note", "toggle-task", "add-alias", "remove-alias"}

HasBackup(fs, p) == \E f \in DOMAIN fs : f.path = p /\ f.suffix # <<>>

\* C5: a tool that overwrites an existing note has a backup snapshot of it
\* when it writes, and when its write fails the note is back at its pre-call
\* content at the end of the call.
C5_OverwriteIsGuarded ==
    \A i \in DOMAIN calls :
        LET c == calls[i] IN
        c.tool \in OverwritingTools
        => /\ c.pc = "write" => HasBackup(files, c.fullPath)
           /\ (c.pc = "done" /\ c.wrote = "failed")
              => files[FileAt(c.fullPath)] = c.before

\* A toggle-task call on an existing note has returned.
ToggleReturned(c) == c.tool = "toggle-task" /\ c.pc = "done" /\ c.before # Absent

\* The line with the checkbox at position box changed to its other state.
Flipped(lineContent, box) ==
    [lineContent EXCEPT ![box] = IF @ = "BOX0" THEN "BOX1" ELSE "BOX0"]

\* C20: a successful toggle-task on line n, a task line, leaves a note with
\* the same number of lines in which line n differs from before only in its
\* checkbox character and every other line is as before; for n greater than
\* the number of lines the call fails with InvalidParams, or with the error
\* of a failed read, and writes nothing.
C20_ToggleChangesOnlyCheckbox ==
    \A i \in DOMAIN calls :
        LET c == calls[i]
            lines == SplitLines(c.before, <<>>)
        IN ToggleReturned(c)
           => /\ (c.result = "success" /\ c.wrote = "ok")
                 => LET after == SplitLines(files[FileAt(c.fullPath)], <<>>)
                        box == CheckboxIndex(lines[c.line], 1)
                    IN /\ Len(after) = Len(lines)
                       /\ \A k \in DOMAIN lines : k # c.line => after[k] = lines[k]
                       /\ after[c.line] = Flipped(lines[c.line], box)
              /\ c.line > Len(lines)
                 => /\ c.result \in {"InvalidParams", handleFsError}
                    /\ files[FileAt(c.fullPath)] = c.before

(***************************************************************************)
(* create-note (src/tools/create-note/index.ts), two calls in flight.      *)
(***************************************************************************)

\* path.dirname of a file path.
pathDirname(p) == SubSeq(p, 1, Len(p) - 1)

\* Lines 34-38: the paths and validateVaultPath.
CreateStart(i) ==
    LET c == calls[i] IN
    /\ c.tool = "create-note" /\ c.pc = "start"
    /\ calls' = [calls EXCEPT ![i] =
         IF normalizePathThrows(c.path) THEN Finished(c, "InvalidRequest")
         ELSE LET notePath == pathJoin(Vault, ensureMarkdownExtension(c.path)) IN
              IF validateVaultPathThrows(Vault, notePath)
              THEN Finished(c, "InvalidRequest")
              ELSE [c EXCEPT !.pc = "mkdir", !.fullPath = notePath,
                             !.before = ContentAt(files, FileAt(notePath))]]
    /\ UNCHANGED <<dailyNoteConfigCache, arg, ret, files, now>>

\* Lines 41-43 and ensureDirectory: mkdir with recursive; an error other
\* than EEXIST is thrown as InternalError.
CreateEnsureDirectory(i) ==
    LET c == calls[i]
        noteDir == pathDirname(c.fullPath)
    IN
    /\ c.tool = "create-note" /\ c.pc = "mkdir"
    /\ \/ calls' = [calls EXCEPT ![i] =
             IF noteDir # <<>> /\ hasInvalidFilenameChars(noteDir[Len(noteDir)])
             THEN Finished(c, "InvalidRequest")
             ELSE [c EXCEPT !.pc = "exists"]]
       \/ calls' = [calls EXCEPT ![i] = Finished(c, "InternalError")]
    /\ UNCHANGED <<dailyNoteConfigCache, arg, ret, files, now>>

\* Lines 45-49: fileExists; a note that is found ends the call.
CreateCheckExists(i) ==
    LET c == calls[i] IN
    /\ c.tool = "create-note" /\ c.pc = "exists"
    /\ \E found \in fileExistsResults(files, FileAt(c.fullPath)) :
         calls' = [calls EXCEPT ![i] =
           IF found
           THEN [Finished(c, createNoteExistsError) EXCEPT !.touched = TRUE, !.found = "yes"]
           ELSE [c EXCEPT !.pc = "write", !.touched = TRUE,
                          !.found = IF Exists(files, FileAt(c.fullPath))
                                    THEN "error" ELSE "no"]]
    /\ UNCHANGED <<dailyNoteConfigCache, arg, ret, files, now>>

\* Lines 51-65: fs.writeFile(notePath, args.content).
CreateWrite(i) ==
    LET c == calls[i]
        note == FileAt(c.fullPath)
        replaces == Exists(files, note)
    IN
    /\ c.tool = "create-note" /\ c.pc = "write"
    /\ \/ /\ files' = WriteFile(files, note, c.content)
          /\ calls' = [calls EXCEPT ![i] =
                [Finished(c, "success") EXCEPT !.wrote = "ok", !.replaced = replaces]]
       \/ /\ files' = files
          /\ calls' = [calls EXCEPT ![i] =
                [Finished(c, handleFsError) EXCEPT !.wrote = "failed"]]
       \/ /\ \E part \in ProperPrefixes(c.content) :
                files' = WriteFile(files, note, part)
          /\ calls' = [calls EXCEPT ![i] =
                [Finished(c, handleFsError) EXCEPT !.wrote = "failed", !.replaced = replaces]]
    /\ UNCHANGED <<dailyNoteConfigCache, arg, ret, now>>

CreatePaths == {<<"n">>, <<"m">>, <<"m.md">>, <<"q?">>}

CreateContents == {<<"T">>, <<"T", "T">>}

InitCreate ==
    /\ arg = NoArg
    /\ ret = Pending
    /\ now = 0
    /\ dailyNoteConfigCache = Null
    /\ files = InitialFiles(<<"T", "SP", "T">>)
    /\ \E r1 \in CreatePaths, r2 \in CreatePaths, c1 \in CreateContents,
          c2 \in CreateContents :
         calls = <<NewCall("create-note", r1, "create", c1),
                   NewCall("create-note", r2, "create", c2)>>

NextCreate ==
    \/ \E i \in DOMAIN calls : CreateStart(i)
    \/ \E i \in DOMAIN calls : CreateEnsureDirectory(i)
    \/ \E i \in DOMAIN calls : CreateCheckExists(i)
    \/ \E i \in DOMAIN calls : CreateWrite(i)

SpecCreate == InitCreate /\ [][NextCreate]_vars

CreateCalls == {i \in DOMAIN calls : calls[i].tool = "create-note"}

\* C8: create-note never replaces the content of an existing note, in every
\* interleaving of concurrent calls: a call that finds a note at its path
\* fails with the already-exists error and writes nothing, and when every
\* existence check reports what is on disk no call writes over a note and at
\* most one of the calls on a path writes the file.
C8_CreateNeverReplaces ==
    /\ \A i \in CreateCalls :
         calls[i].found = "yes"
         => (calls[i].result = createNoteExistsError /\ calls[i].wrote = "none")
    /\ (\A i \in CreateCalls : calls[i].found # "error")
       => /\ \A i \in CreateCalls : ~calls[i].replaced
          /\ \A i, j \in CreateCalls :
               (i # j /\ calls[i].fullPath = calls[j].fullPath)
               => (calls[i].wrote # "ok" \/ calls[j].wrote # "ok")

(***************************************************************************)
(* checkLocalPath (src/utils/path.ts).  A path is a sequence of tokens:    *)
(* "a" a letter, "srv" and "mnt" names of several letters ("mnt" one of    *)
(* net, mnt, media, Volumes), ":", "/" and "BS" the backslash.  The        *)
(* results of fs.realpath and of the exec calls are inputs.                *)
(***************************************************************************)

Resolved(stdout, stderr) == [kind |-> "resolve", stdout |-> stdout, stderr |-> stderr]

Rejected(code) == [kind |-> "reject", code |-> code]

NodeEnvs == {"test", "production"}

\* knownMountPrefixes / networkMountPrefixes
startsWithMountPrefix(realPath) == StartsWith(realPath, <<"/", "mnt", "/">>)

\* path.resolve(path.dirname(p)): the path without its last component.
RECURSIVE resolvedDirname(_)
resolvedDirname(p) ==
    IF p = <<>> THEN <<>>
    ELSE IF IsSeparator(p[Len(p)]) THEN SubSeq(p, 1, Len(p) - 1)
    ELSE resolvedDirname(SubSeq(p, 1, Len(p) - 1))

\* realPath.split("\\")
RECURSIVE SplitBackslash(_, _)
SplitBackslash(s, cur) ==
    IF s = <<>> THEN <<cur>>
    ELSE IF Head(s) = "BS" THEN <<cur>> \o SplitBackslash(Tail(s), <<>>)
    ELSE SplitBackslash(Tail(s), Append(cur, Head(s)))

\* /^[a-zA-Z]:[\/\\]/
startsWithDriveRoot(realPath) ==
    Len(realPath) >= 3 /\ realPath[1] = "a" /\ realPath[2] = ":" /\ IsSeparator(realPath[3])

\* Lines 180-182: the third piece of a path that starts with a backslash
\* (undefined when there is none), else the first character.
driveOf(realPath) ==
    IF StartsWith(realPath, <<"BS">>)
    THEN LET pieces == SplitBackslash(realPath, <<>>) IN
         IF Len(pieces) >= 3 THEN pieces[3] ELSE <<"undefined">>
    ELSE <<realPath[1]>>

\* /^[a-zA-Z]$/
isDriveLetter(drive) == drive = <<"a">>

Digits == {"0", "1", "2", "3", "4", "5", "6"}

\* stdout.match(/DriveType=(\d+)/) and parseInt, 0 without a match.
RECURSIVE driveTypeOf(_)
driveTypeOf(stdout) ==
    IF Len(stdout) < 2 THEN "0"
    ELSE IF stdout[1] = "DriveType=" /\ stdout[2] \in Digits THEN stdout[2]
    ELSE driveTypeOf(Tail(stdout))

\* Lines 184-211: wmic, powershell when wmic throws, DriveType=4 for a drive
\* that is not a letter.
driveTypeProbe(drive, wmic, powershell) ==
    IF ~isDriveLetter(drive) THEN Resolved(<<"DriveType=", "4">>, <<>>)
    ELSE IF wmic.kind = "resolve" THEN wmic
    ELSE IF powershell.kind = "resolve"
         THEN Resolved(<<"DriveType=">> \o Trim(powershell.stdout), powershell.stderr)
    ELSE powershell

\* Lines 179-239.
checkWindowsDrive(realPath, wmic, powershell) ==
    IF startsWithDriveRoot(realPath) \/ StartsWith(realPath, <<"BS">>)
    THEN LET result == driveTypeProbe(driveOf(realPath), wmic, powershell) IN
         IF result.kind = "reject"
         THEN IF result.code = "ETIMEDOUT"
              THEN Reason("Network, removable, or unknown drive type is not supported")
              ELSE Reason("Unable to verify if drive is local")
         ELSE IF driveTypeOf(result.stdout) \notin {"3", "5", "6"}
              THEN Reason("Network, removable, or unknown drive type is not supported")
              ELSE Null
    ELSE Null

\* Names the pattern /^(nfs|cifs|smb|afp|ftp|ssh|davfs|fuse\.sshfs|fuse\.davfs)/i
\* matches.
NetworkFsNames == {"nfs"}

\* Lines 292-299.
isNetwork(stdout) ==
    \/ stdout # <<>> /\ stdout[1] \in NetworkFsNames
    \/ Contains(stdout, ":")
    \/ Contains(stdout, "//")
    \/ Contains(stdout, "type fuse.")
    \/ Contains(stdout, "network")

\* Lines 258-272: the .catch turns a rejection of exec into an output.
dfOutput(df) ==
    IF df.kind = "resolve" THEN df
    ELSE IF df.code = "ETIMEDOUT" THEN Resolved(<<"network">>, <<"Timeout executing df">>)
    ELSE Resolved(<<>>, <<"Error executing df:">>)

\* Lines 256-309.
checkUnixMount(df) ==
    LET out == dfOutput(df) IN
    IF StartsWith(out.stderr, <<"Error executing df:">>)
    THEN Reason("Unable to verify if filesystem is local")
    ELSE IF isNetwork(out.stdout)
    THEN Reason("Network or remote filesystem is not supported")
    ELSE Null

checkLocalPath(e) ==
    IF e.realpath.kind = "reject"
    THEN IF e.realpath.code = "ELOOP" THEN Reason("Contains circular symlinks")
         ELSE Reason("Failed to resolve path realpath")
    ELSE LET realPath == e.realpath.value IN
         IF resolvedDirname(realPath) # resolvedDirname(e.vaultPath)
            /\ ~startsWithMountPrefix(realPath)
         THEN Reason("Path contains symlinks that point outside the parent directory")
         ELSE IF e.platform = "win32"
         THEN IF e.nodeEnv = "test"
              THEN IF StartsWith(realPath, <<"BS">>)
                   THEN Reason("Network, removable, or unknown drive type is not supported")
                   ELSE Null
              ELSE checkWindowsDrive(realPath, e.wmic, e.powershell)
         ELSE IF startsWithMountPrefix(realPath)
              THEN IF e.nodeEnv = "test"
                   THEN Reason("Network or remote filesystem is not supported")
                   ELSE checkUnixMount(e.df)
              ELSE Null

\* Real paths: C:\srv, C:/srv, \\srv\srv, \\a\srv, \srv on Windows;
\* /mnt/srv, /srv/srv, /mnt on POSIX.
RealPaths(platform) ==
    IF platform = "win32"
    THEN {<<"a", ":", "BS", "srv">>, <<"a", ":", "/", "srv">>,
          <<"BS", "BS", "srv", "BS", "srv">>, <<"BS", "BS", "a", "BS", "srv">>,
          <<"BS", "srv">>}
    ELSE {<<"/", "mnt", "/", "srv">>, <<"/", "srv", "/", "srv">>, <<"/", "mnt">>}

\* The path given: the real path itself, or a link to it in another directory.
VaultPaths(platform, realPath) ==
    {realPath,
     IF platform = "win32" THEN <<"a", ":", "BS", "srv", "BS", "srv">>
     ELSE <<"/", "srv", "/", "srv", "/", "srv">>}

RealpathResults(platform) ==
    {Rejected("ELOOP"), Rejected("EACCES")}
    \cup {[kind |-> "resolve", value |-> p] : p \in RealPaths(platform)}

ExecErrors == {Rejected("ETIMEDOUT"), Rejected("ENOENT")}

WmicResults ==
    ExecErrors
    \cup {Resolved(<<"DriveType=", d>>, <<>>) : d \in Digits}
    \cup {Resolved(<<>>, <<>>), Resolved(<<"junk">>, <<"junk">>)}

PowershellResults ==
    ExecErrors
    \cup {Resolved(<<d, "CR", "NL">>, <<>>) : d \in {"2", "3", "4", "5"}}
    \cup {Resolved(<<>>, <<"junk">>)}

\* Output of `df -P "path" | tail -n 1`: a line for a local device, lines of
\* network filesystems, a line that is no df line, or nothing on stdout with
\* the message of a df that failed on stderr.
DfResults ==
    ExecErrors
    \cup {Resolved(out, <<>>) :
            out \in {<<"dev">>, <<"nfs">>, <<"srv", ":">>, <<"//", "srv">>,
                     <<"dev", "nfs">>, <<"junk">>}}
    \cup {Resolved(<<>>, <<"junk">>)}

InitLocalPath ==
    /\ \E p \in Platforms, env \in NodeEnvs :
         \E rp \in RealpathResults(p), w \in WmicResults, ps \in PowershellResults,
            df \in DfResults :
           \E vp \in (IF rp.kind = "resolve" THEN VaultPaths(p, rp.value)
                      ELSE VaultPaths(p, <<"/", "srv">>)) :
             arg = [fn |-> "checkLocalPath", platform |-> p, nodeEnv |-> env,
                    vaultPath |-> vp, realpath |-> rp, wmic |-> w,
                    powershell |-> ps, df |-> df]
    /\ ret = Pending
    /\ files = NoFiles
    /\ calls = NoCalls
    /\ now = 0
    /\ dailyNoteConfigCache = Null

CallCheckLocalPath ==
    /\ arg.fn = "checkLocalPath"
    /\ ret = Pending
    /\ ret' = checkLocalPath(arg)
    /\ UNCHANGED <<dailyNoteConfigCache, arg, files, calls, now>>

NextLocalPath == CallCheckLocalPath

SpecLocalPath == InitLocalPath /\ [][NextLocalPath]_vars

LocalPathReturned == arg.fn = "checkLocalPath" /\ ret # Pending

\* A probe of the storage type is due: a drive or UNC path on Windows, a
\* path under a mount prefix on POSIX.
ProbeDue(e) ==
    IF e.platform = "win32"
    THEN startsWithDriveRoot(e.realpath.value) \/ StartsWith(e.realpath.value, <<"BS">>)
    ELSE startsWithMountPrefix(e.realpath.value)

\* The command whose answer decides: powershell when wmic failed, df on POSIX.
DecidingProbe(e) ==
    IF e.platform = "win32"
    THEN IF e.wmic.kind = "resolve" THEN e.wmic ELSE e.powershell
    ELSE e.df

\* The drive type a probe's output names, "unknown" when it names none.
DriveClass(probe) ==
    IF probe.kind = "reject" THEN "unreadable"
    ELSE LET out == Trim(probe.stdout) IN
         IF Len(out) = 2 /\ out[1] = "DriveType=" /\ out[2] \in Digits THEN out[2]
         ELSE IF Len(out) = 1 /\ out[1] \in Digits THEN out[1]
         ELSE "unknown"

\* The answer is one the probe is known to give: a drive type from removable
\* to RAM disk, or a df line that starts with the name of a filesystem.
AnswerRecognised(e) ==
    LET probe == DecidingProbe(e) IN
    /\ probe.kind = "resolve"
    /\ IF e.platform = "win32"
       THEN DriveClass(probe) \in {"2", "3", "4", "5", "6"}
       ELSE probe.stdout # <<>> /\ probe.stdout[1] \in {"dev", "nfs", "srv", "//"}

\* C11: outside the test environment checkLocalPath returns null only when
\* the real path was resolved and, where a probe of the storage type is due,
\* the probe neither timed out nor failed and gave a recognised answer.
C11_LocalPathFailsClosed ==
    (LocalPathReturned /\ arg.nodeEnv = "production" /\ ret = Null)
    => /\ arg.realpath.kind = "resolve"
       /\ ProbeDue(arg) => AnswerRecognised(arg)

\* C12: on Windows a UNC path is rejected, and outside the test environment
\* a drive path is rejected unless its drive is classified local fixed.
C12_WindowsOnlyLocalFixed ==
    (LocalPathReturned /\ arg.platform = "win32" /\ arg.realpath.kind = "resolve")
    => /\ StartsWith(arg.realpath.value, <<"BS", "BS">>) => ret # Null
       /\ (arg.nodeEnv = "production" /\ startsWithDriveRoot(arg.realpath.value)
           /\ DriveClass(DecidingProbe(arg)) # "3") => ret # Null

(***************************************************************************)
(* checkSuspiciousPath (src/utils/path.ts).  Names of directories are      *)
(* tokens; "a" ":" is the drive C:.                                        *)
(***************************************************************************)

\* toLowerCase on a token.
LowerToken(t) ==
    CASE t = "ETC" -> "etc"
      [] t \in {"Windows", "WINDOWS"} -> "windows"
      [] t = "Program Files" -> "program files"
      [] t = "Program Files (x86)" -> "program files (x86)"
      [] t = "ProgramData" -> "programdata"
      [] t = "Users" -> "users"
      [] t = "All Users" -> "all users"
      [] t = "System32" -> "system32"
      [] OTHER -> t

toLowerCase(s) == [i \in DOMAIN s |-> LowerToken(s[i])]

\* The characters of name begin with those of start.
NameStartsWith(name, start) ==
    \/ name = start
    \/ <<name, start>> \in {<<"etcetera", "etc">>,
                           <<"program files (x86)", "program files">>}

\* String.prototype.startsWith on token sequences: dir may end inside the
\* token of s at its last position.
stringStartsWith(s, dir) ==
    /\ Len(s) >= Len(dir)
    /\ \A i \in 1..(Len(dir) - 1) : s[i] = dir[i]
    /\ NameStartsWith(s[Len(dir)], dir[Len(dir)])

\* part.startsWith(".")
startsWithDot(part) == part # <<>> /\ part[1] \in {".", ".x", ".obsidian"}

\* Lines 342-357, lower-cased.
systemDirs ==
    {<<"/", "bin">>, <<"/", "sbin">>, <<"/", "usr", "/", "bin">>,
     <<"/", "usr", "/", "sbin">>, <<"/", "etc">>, <<"/", "var">>, <<"/", "tmp">>,
     <<"/", "dev">>, <<"/", "sys">>,
     <<"a", ":", "BS", "windows">>, <<"a", ":", "BS", "program files">>,
     <<"a", ":", "BS", "system32">>, <<"a", ":", "BS", "users", "BS", "all users">>,
     <<"a", ":", "BS", "programdata">>}

checkSuspiciousPath(platform, homedir, vaultPath) ==
    LET parts == SplitComponents(vaultPath) IN
    IF \E i \in DOMAIN parts : startsWithDot(parts[i]) /\ parts[i] # <<".obsidian">>
    THEN Reason("Contains hidden directories")
    ELSE IF \E dir \in systemDirs : stringStartsWith(toLowerCase(vaultPath), dir)
    THEN Reason("Points to a system directory")
    ELSE IF vaultPath = homedir THEN Reason("Points to home directory root")
    ELSE IF StrLength(vaultPath) > maxComponentLength
    THEN Reason("Path is too long (maximum 255 characters)")
    ELSE checkPathCharacters(platform, vaultPath)

PosixNames ==
    {"etc", "ETC", "etcetera", "bin", "sbin", "usr", "local", "var", "tmp", "dev",
     "sys", "home", "srv", ".x", ".obsidian"}

WindowsNames ==
    {"Windows", "WINDOWS", "Program Files", "Program Files (x86)", "ProgramData",
     "System32", "Users", "All Users", "srv", ".x"}

\* Paths of one and two directories below the root, with either separator
\* after a drive.
SuspiciousPathInputs ==
    {<<"/", n>> : n \in PosixNames}
    \cup {<<"/", n, "/", k>> : n \in PosixNames, k \in PosixNames}
    \cup UNION {{<<"a", ":", sep, n>> : n \in WindowsNames} : sep \in {"BS", "/"}}
    \cup UNION {{<<"a", ":", sep, n, sep, k>> : n \in WindowsNames, k \in WindowsNames} :
                  sep \in {"BS", "/"}}

HomeDirs == {<<"/", "home", "srv">>, <<"a", ":", "BS", "Users", "BS", "srv">>}

InitSuspicious ==
    /\ \E p \in Platforms, h \in HomeDirs, s \in SuspiciousPathInputs :
         arg = [fn |-> "checkSuspiciousPath", platform |-> p, homedir |-> h, path |-> s]
    /\ ret = Pending
    /\ files = NoFiles
    /\ calls = NoCalls
    /\ now = 0
    /\ dailyNoteConfigCache = Null

CallCheckSuspiciousPath ==
    /\ arg.fn = "checkSuspiciousPath"
    /\ ret = Pending
    /\ ret' = checkSuspiciousPath(arg.platform, arg.homedir, arg.path)
    /\ UNCHANGED <<dailyNoteConfigCache, arg, files, calls, now>>

NextSuspicious == CallCheckSuspiciousPath

SpecSuspicious == InitSuspicious /\ [][NextSuspicious]_vars

SuspiciousReturned == arg.fn = "checkSuspiciousPath" /\ ret # Pending

\* The path is, or lies below, a directory of the list in the claim: /etc,
\* /bin, /usr/*, /var, /tmp, /dev, /sys, C:\Windows, C:\Program Files*,
\* C:\ProgramData, C:\Users\All Users, names compared without case.
IsOrBelowListedDirectory(path) ==
    LET parts == SplitComponents(toLowerCase(path)) IN
    /\ Len(parts) >= 2
    /\ \/ /\ parts[1] = <<>>
          /\ \/ parts[2] \in {<<"etc">>, <<"bin">>, <<"var">>, <<"tmp">>, <<"dev">>, <<"sys">>}
             \/ parts[2] = <<"usr">> /\ Len(parts) >= 3
       \/ /\ parts[1] = <<"a", ":">>
          /\ \/ parts[2] \in {<<"windows">>, <<"programdata">>}
             \/ Len(parts[2]) = 1 /\ NameStartsWith(parts[2][1], "program files")
             \/ parts[2] = <<"users">> /\ Len(parts) >= 3 /\ parts[3] = <<"all users">>

\* C13: checkSuspiciousPath rejects every path that is or lies below a
\* directory of the denylist, compared case-insensitively.
C13_SystemDirectoriesRejected ==
    (SuspiciousReturned /\ IsOrBelowListedDirectory(arg.path)) => ret # Null

(***************************************************************************)
(* stringifyNote followed by parseNote, and the content removeAlias writes *)
(* (src/tools/remove-alias/index.ts).                                      *)
(***************************************************************************)

\* The aliases an entry holds.
AliasesOf(entry) ==
    CASE entry = "A[x]" -> <<"x">>
      [] entry = "A[y]" -> <<"y">>
      [] entry = "A[x,y]" -> <<"x", "y">>
      [] OTHER -> <<>>

\* The entry for a list of aliases.
AliasEntryOf(aliases) ==
    CASE aliases = <<"x">> -> "A[x]"
      [] aliases = <<"y">> -> "A[y]"
      [] aliases = <<"x", "y">> -> "A[x,y]"
      [] OTHER -> "A[]"

\* Array.isArray(frontmatter.aliases)
IsAliasArray(entry) == entry \in AliasEntries \ {"A=x"}

\* Position of the key aliases in the entries, or 0.
AliasIndex(entries) ==
    IF \E i \in DOMAIN entries : entries[i] \in AliasEntries
    THEN CHOOSE i \in DOMAIN entries : entries[i] \in AliasEntries
    ELSE 0

RemoveAt(seq, k) == SubSeq(seq, 1, k - 1) \o SubSeq(seq, k + 1, Len(seq))

NoWrite == [kind |-> "nowrite"]

\* Lines 57-103 of removeAlias: the content written, NoWrite when the alias
\* is not there, or the error of parseNote.
removeAliasContent(content, aliasToRemove) ==
    LET parsedNote == parseNote(content) IN
    IF parsedNote.throws THEN Thrown("InvalidParams")
    ELSE LET entries == IF parsedNote.frontmatter.kind = "map"
                        THEN parsedNote.frontmatter.entries ELSE <<>>
             k == AliasIndex(entries)
         IN IF k = 0 \/ ~IsAliasArray(entries[k]) THEN NoWrite
            ELSE LET aliases == AliasesOf(entries[k])
                     kept == SelectSeq(aliases, LAMBDA alias : alias # aliasToRemove)
                 IN IF Len(kept) < Len(aliases)
                    THEN Returned(stringifyNote(
                            [parsedNote EXCEPT !.frontmatter.entries =
                                IF kept = <<>> THEN RemoveAt(entries, k)
                                ELSE [entries EXCEPT ![k] = AliasEntryOf(kept)]]))
                    ELSE NoWrite

\* Frontmatter mappings of a ParsedNote.
FrontmatterMaps ==
    {YamlMap(e) : e \in {<<>>, <<"K1">>, <<"K2">>, <<"K1", "K2">>, <<"K2", "K1">>,
                         <<"A[x]">>, <<"K1", "A[x,y]">>}}

\* What a note given to remove-alias begins with.
AliasBlocks ==
    {<<>>,
     <<"D", "NL", "D", "NL">>,
     <<"D", "NL", "K1", "NL", "D", "NL">>,
     <<"D", "NL", "A[x]", "NL", "D", "NL">>,
     <<"D", "NL", "A[x,y]", "NL", "D", "NL">>,
     <<"D", "NL", "K1", "NL", "A[x]", "NL", "D", "NL">>,
     <<"D", "NL", "A[]", "NL", "D", "NL">>,
     <<"D", "NL", "A=x", "NL", "D", "NL">>,
     <<"D", "NL", "BAD", "NL", "D", "NL">>}

AliasNames == {"x", "y", "z"}

InitFrontmatter ==
    /\ \/ \E fm \in FrontmatterMaps, c \in SeqsUpTo(TextTokens, MaxTextTokens),
             has \in BOOLEAN :
            arg = [fn |-> "roundTrip", note |-> ParsedNote(fm, c, has)]
       \/ \E block \in AliasBlocks, body \in SeqsUpTo(TextTokens, MaxTextTokens),
             alias \in AliasNames :
            arg = [fn |-> "removeAlias", content |-> block \o body, alias |-> alias]
    /\ ret = Pending
    /\ files = NoFiles
    /\ calls = NoCalls
    /\ now = 0
    /\ dailyNoteConfigCache = Null

\* parseNote(stringifyNote(p))
CallRoundTrip ==
    /\ arg.fn = "roundTrip"
    /\ ret = Pending
    /\ LET text == stringifyNote(arg.note) IN
       ret' = [kind |-> "return", text |-> text, parsed |-> parseNote(text)]
    /\ UNCHANGED <<dailyNoteConfigCache, arg, files, calls, now>>

CallRemoveAlias ==
    /\ arg.fn = "removeAlias"
    /\ ret = Pending
    /\ ret' = removeAliasContent(arg.content, arg.alias)
    /\ UNCHANGED <<dailyNoteConfigCache, arg, files, calls, now>>

NextFrontmatter ==
    \/ CallRoundTrip
    \/ CallRemoveAlias

SpecFrontmatter == InitFrontmatter /\ [][NextFrontmatter]_vars

RoundTripReturned == arg.fn = "roundTrip" /\ ret # Pending

RemoveAliasReturned == arg.fn = "removeAlias" /\ ret # Pending

\* C14 as stated: for every ParsedNote p with a non-empty frontmatter
\* mapping, parseNote(stringifyNote(p)) has the frontmatter of p and the
\* content p.content.trim().
C14_RoundTripAsStated ==
    (RoundTripReturned /\ arg.note.frontmatter.entries # <<>>)
    => /\ ~ret.parsed.throws
       /\ ret.parsed.frontmatter = arg.note.frontmatter
       /\ ret.parsed.content = Trim(arg.note.content)

\* C14: for every ParsedNote p with hasFrontmatter set and a non-empty
\* frontmatter mapping, parseNote(stringifyNote(p)) has the frontmatter of p
\* and as content a line end followed by p.content.trim().
C14_RoundTrip ==
    (RoundTripReturned /\ arg.note.hasFrontmatter /\ arg.note.frontmatter.entries # <<>>)
    => /\ ~ret.parsed.throws
       /\ ret.parsed.hasFrontmatter
       /\ ret.parsed.frontmatter = arg.note.frontmatter
       /\ ret.parsed.content = <<"NL">> \o Trim(arg.note.content)

\* C14 witness: a note with two entries and a body with text around which
\* whitespace is trimmed went through stringifyNote and parseNote.
C14_Witness ==
    /\ RoundTripReturned
    /\ arg.note.hasFrontmatter
    /\ Len(arg.note.frontmatter.entries) = 2
    /\ Trim(arg.note.content) # <<>>
    /\ Trim(arg.note.content) # arg.note.content
    /\ ret.parsed.frontmatter = arg.note.frontmatter

\* The only key of the note's frontmatter is aliases, holding the one alias
\* the call removes.
RemovesLastKey ==
    /\ arg.fn = "removeAlias"
    /\ LET parsed == parseNote(arg.content) IN
       /\ ~parsed.throws
       /\ parsed.frontmatter.kind = "map"
       /\ Len(parsed.frontmatter.entries) = 1
       /\ AliasesOf(parsed.frontmatter.entries[1]) = <<arg.alias>>

\* C15: stringifyNote of a note whose frontmatter mapping is empty returns
\* exactly its content, and a note whose last frontmatter key remove-alias
\* removes is written as its body alone, with no delimiter lines added.
C15_EmptyMappingNotSerialized ==
    /\ (RoundTripReturned /\ arg.note.frontmatter.entries = <<>>)
       => ret.text = arg.note.content
    /\ (RemoveAliasReturned /\ RemovesLastKey)
       => ret = Returned(parseNote(arg.content).content)

\* C15 witness: remove-alias removed the only key of a note with a body, and
\* what it writes no longer starts with a delimiter.
C15_Witness ==
    /\ RemoveAliasReturned
    /\ RemovesLastKey
    /\ ret.kind = "return"
    /\ Trim(ret.value) # <<>>
    /\ ~StartsWith(ret.value, <<"D">>)

(***************************************************************************)
(* extractTags (src/utils/tags.ts).  A line is a sequence of tokens: a tag *)
(* "#a" or "#b", BT (one backtick), FENCE (three backticks), CO ("<!--"),  *)
(* CC ("-->"), SP (a space); NL separates lines.                           *)
(***************************************************************************)

MaxTagTokens == 4

TagTokens == {"#a", "#b"}

TagLineTokens == TagTokens \cup {"BT", "FENCE", "CO", "CC", "SP", "NL"}

\* Tokens that end with a backtick.
BacktickTokens == {"BT", "FENCE"}

\* content.split("\n")
RECURSIVE SplitNewline(_, _)
SplitNewline(s, cur) ==
    IF s = <<>> THEN <<cur>>
    ELSE IF Head(s) = "NL" THEN <<cur>> \o SplitNewline(Tail(s), <<>>)
    ELSE SplitNewline(Tail(s), Append(cur, Head(s)))

\* String.indexOf for a token: its first position in the line, or 0.
FirstIndexOf(line, token) ==
    IF \E i \in DOMAIN line : line[i] = token
    THEN CHOOSE i \in DOMAIN line :
            line[i] = token /\ \A j \in 1..(i - 1) : line[j] # token
    ELSE 0

\* Number of backticks the line begins with.
RECURSIVE LeadingBackticks(_)
LeadingBackticks(line) ==
    IF line = <<>> THEN 0
    ELSE IF Head(line) = "FENCE" THEN 3 + LeadingBackticks(Tail(line))
    ELSE IF Head(line) = "BT" THEN 1 + LeadingBackticks(Tail(line))
    ELSE 0

\* currentLine.trim().startsWith("```")
startsWithFence(line) == LeadingBackticks(Trim(line)) >= 3

\* The text TAG_PATTERN matches at position i of the line: the tag and the
\* hyphens of a "-->" that follows it, which the character class accepts.
MatchedText(line, i) ==
    IF i < Len(line) /\ line[i + 1] = "CC" THEN line[i] \o "--" ELSE line[i]

\* TAG_PATTERN matches at position i: a tag not preceded by a word character
\* or a backtick.
tagPatternMatchesAt(line, i) ==
    /\ line[i] \in TagTokens
    /\ i > 1 => line[i - 1] \notin (TagTokens \cup BacktickTokens)

\* searchLine.indexOf(tagMatch): the first position where the text occurs.
indexOfMatch(line, text) ==
    CHOOSE i \in DOMAIN line :
        /\ line[i] \in TagTokens
        /\ \/ MatchedText(line, i) = text
           \/ line[i] = text
        /\ \A j \in 1..(i - 1) :
              ~(line[j] \in TagTokens /\ (MatchedText(line, j) = text \/ line[j] = text))

\* Group 1 of the pattern: the text without its "#".
tagName(text) ==
    CASE text = "#a" -> "a"
      [] text = "#b" -> "b"
      [] text = "#a--" -> "a--"
      [] text = "#b--" -> "b--"

\* Mutant: a collection that keeps every added element.
SetAdd_Append(tags, tag) == Append(tags, tag)

\* Set.add on the tags collected so far, kept in insertion order.
SetAdd(tags, tag) ==
    IF \E k \in DOMAIN tags : tags[k] = tag THEN tags ELSE Append(tags, tag)

\* matches.forEach of lines 215-227 from position i of searchLine on.
RECURSIVE addMatches(_, _, _)
addMatches(searchLine, i, tags) ==
    IF i > Len(searchLine) THEN tags
    ELSE IF ~tagPatternMatchesAt(searchLine, i) THEN addMatches(searchLine, i + 1, tags)
    ELSE LET tagMatch == MatchedText(searchLine, i)
             index == indexOfMatch(searchLine, tagMatch)
         IN IF index > 1 /\ searchLine[index - 1] \in BacktickTokens
            THEN addMatches(searchLine, i + 1, tags)
            ELSE addMatches(searchLine, i + 1, SetAdd(tags, tagName(tagMatch)))

\* One iteration of the loop of lines 180-230.
extractTagsLine(line, st) ==
    LET closes == st.inHtmlComment /\ FirstIndexOf(line, "CC") > 0
        currentLine == IF closes THEN Drop(line, FirstIndexOf(line, "CC")) ELSE line
        afterComment == [st EXCEPT !.inHtmlComment = IF closes THEN FALSE ELSE @]
        processLine == ~st.inHtmlComment \/ closes
    IN IF ~processLine THEN afterComment
       ELSE IF startsWithFence(currentLine)
       THEN [afterComment EXCEPT !.inCodeBlock = ~@]
       ELSE IF afterComment.inCodeBlock THEN afterComment
       ELSE LET open == FirstIndexOf(currentLine, "CO")
                searchLine == IF open > 0 THEN SubSeq(currentLine, 1, open - 1)
                              ELSE currentLine
                stays == /\ open > 0
                         /\ FirstIndexOf(Drop(currentLine, open), "CC") = 0
            IN [afterComment EXCEPT
                   !.inHtmlComment = IF stays THEN TRUE ELSE @,
                   !.tags = addMatches(searchLine, 1, @)]

RECURSIVE extractTagsLines(_, _)
extractTagsLines(lines, st) ==
    IF lines = <<>> THEN st.tags
    ELSE extractTagsLines(Tail(lines), extractTagsLine(Head(lines), st))

extractTags(content) ==
    extractTagsLines(SplitNewline(content, <<>>),
                     [inCodeBlock |-> FALSE, inHtmlComment |-> FALSE, tags |-> <<>>])

InitExtractTags ==
    /\ \E content \in SeqsUpTo(TagLineTokens, MaxTagTokens) :
          arg = [fn |-> "extractTags", content |-> content]
    /\ ret = Pending
    /\ files = NoFiles
    /\ calls = NoCalls
    /\ now = 0
    /\ dailyNoteConfigCache = Null

CallExtractTags ==
    /\ arg.fn = "extractTags"
    /\ ret = Pending
    /\ ret' = Returned(extractTags(arg.content))
    /\ UNCHANGED <<dailyNoteConfigCache, arg, files, calls, now>>

NextExtractTags == CallExtractTags

SpecExtractTags == InitExtractTags /\ [][NextExtractTags]_vars

\* The tags of the '#tag' occurrences of a line from position i on that lie
\* outside every HTML comment and do not follow a backtick, and whether the
\* line ends inside a comment.
RECURSIVE OutsideInLine(_, _, _, _)
OutsideInLine(line, i, inComment, found) ==
    IF i > Len(line) THEN [inComment |-> inComment, found |-> found]
    ELSE IF inComment THEN OutsideInLine(line, i + 1, line[i] # "CC", found)
    ELSE IF line[i] = "CO" THEN OutsideInLine(line, i + 1, TRUE, found)
    ELSE IF tagPatternMatchesAt(line, i)
    THEN OutsideInLine(line, i + 1, FALSE,
                       found \cup {tagName(MatchedText(line, i))})
    ELSE OutsideInLine(line, i + 1, FALSE, found)

\* What follows the comment an enclosing line left open.
AfterOpenComment(line) ==
    IF FirstIndexOf(line, "CC") > 0 THEN Drop(line, FirstIndexOf(line, "CC")) ELSE <<>>

\* The tags with an occurrence outside every fenced code block and every
\* HTML comment, not preceded by a backtick.
RECURSIVE TagsOutside(_, _, _)
TagsOutside(lines, inCode, inComment) ==
    IF lines = <<>> THEN {}
    ELSE LET line == Head(lines)
             closed == ~inComment \/ FirstIndexOf(line, "CC") > 0
             rest == IF inComment THEN AfterOpenComment(line) ELSE line
         IN IF ~closed THEN TagsOutside(Tail(lines), inCode, TRUE)
            ELSE IF startsWithFence(rest) THEN TagsOutside(Tail(lines), ~inCode, FALSE)
            ELSE IF inCode THEN TagsOutside(Tail(lines), TRUE, FALSE)
            ELSE LET scan == OutsideInLine(rest, 1, FALSE, {}) IN
                 scan.found \cup TagsOutside(Tail(lines), FALSE, scan.inComment)

ExtractTagsReturned == arg.fn = "extractTags" /\ ret # Pending

\* C16: extractTags returns, each exactly once, precisely the tags that have
\* an occurrence outside every fenced code block, outside every HTML comment
\* (text after a comment closed on its own line is outside) and not
\* immediately preceded by a backtick.
C16_ExtractTagsPrecise ==
    ExtractTagsReturned
    => /\ NoDuplicates(ret.value)
       /\ Range(ret.value) = TagsOutside(SplitNewline(arg.content, <<>>), FALSE, FALSE)

(***************************************************************************)
(* addTagsToFrontmatter and removeTagsFromFrontmatter (src/utils/tags.ts). *)
(* Both modify the frontmatter object they are given.  Its tags field is   *)
(* absent, a string, an array of strings, or a value of another type.      *)
(***************************************************************************)

MaxFrontmatterTags == 2

MaxApplications == 2

\* Tags in the order Array.prototype.sort gives them.
CodeUnitOrder == <<"T3", "a-b", "t1", "t2", "t3">>

\* Tags a frontmatter holds at the start.
StoredTags == {"T3", "t1", "t2", "t3"}

\* Tags a caller names.
InputTags == {"t1", "t2", "T3", "#t1", "bad tag"}

TagsField(form, tags) == [form |-> form, tags |-> tags]

AbsentField == TagsField("absent", <<>>)

\* tag.replace(/^#/, "")
stripHash(tag) == IF tag = "#t1" THEN "t1" ELSE tag

\* TAG_REGEX: letters and digits, in parts separated by "/".
validateTag(tag) == stripHash(tag) \in {"t1", "t2", "t3", "T3", "aB"}

\* Lower case, with a hyphen before a capital that follows a lower-case
\* letter or a digit.
normalizeTag(tag, normalize) ==
    IF ~normalize THEN stripHash(tag)
    ELSE IF stripHash(tag) = "T3" THEN "t3"
    ELSE IF stripHash(tag) = "aB" THEN "a-b"
    ELSE stripHash(tag)

\* The strings of a tags field: existingTagsArray, currentTags.
tagsAsArray(field) ==
    IF field.form \in {"string", "array"} THEN field.tags ELSE <<>>

RECURSIVE SetOf(_, _)
\* new Set(array)
SetOf(array, acc) ==
    IF array = <<>> THEN acc ELSE SetOf(Tail(array), SetAdd(acc, Head(array)))

\* Mutant: a sort that leaves the array as it is.
sortTags_Unsorted(array) == array

\* Array.prototype.sort() on strings.
sortTags(array) ==
    LET Copies(t) == SelectSeq(array, LAMBDA x : x = t) IN
    Copies(CodeUnitOrder[1]) \o Copies(CodeUnitOrder[2])
        \o Copies(CodeUnitOrder[3]) \o Copies(CodeUnitOrder[4])
        \o Copies(CodeUnitOrder[5])

RECURSIVE addNormalized(_, _, _)
\* The loop of lines 253-259 once every tag is known to be valid.
addNormalized(existingTags, newTags, normalize) ==
    IF newTags = <<>> THEN existingTags
    ELSE addNormalized(SetAdd(existingTags, normalizeTag(Head(newTags), normalize)),
                       Tail(newTags), normalize)

\* The frontmatter addTagsToFrontmatter leaves, and whether it throws.
addTagsToFrontmatter(frontmatter, newTags, normalize) ==
    IF \E k \in DOMAIN newTags : ~validateTag(newTags[k])
    THEN [frontmatter |-> frontmatter, result |-> Thrown("InvalidParams")]
    ELSE LET existingTags ==
                 addNormalized(SetOf(tagsAsArray(frontmatter.tags), <<>>), newTags, normalize)
             field == IF Len(existingTags) = 0 THEN AbsentField
                      ELSE IF Len(existingTags) = 1 THEN TagsField("string", existingTags)
                      ELSE TagsField("array", sortTags(existingTags))
         IN [frontmatter |-> [frontmatter EXCEPT !.tags = field],
             result |-> Returned(Null)]

\* Tag patterns a caller gives.
PatternLists == {<<>>, <<"t*">>}

\* re.test(normalizedTag) for the pattern's expression
patternMatches(pattern, tag) == pattern = "t*" /\ tag \in {"t1", "t2", "t3"}

\* Mutant: every tag is to be removed.
shouldRemove_Always(tag, tagsToRemove, normalize, patterns) == TRUE

shouldRemove(tag, tagsToRemove, normalize, patterns) ==
    LET normalizedTag == normalizeTag(tag, normalize) IN
    \/ \E k \in DOMAIN tagsToRemove :
          normalizeTag(tagsToRemove[k], normalize) = normalizedTag
    \/ \E k \in DOMAIN patterns : patternMatches(patterns[k], normalizedTag)

\* The frontmatter removeTagsFromFrontmatter leaves, and its report.
removeTagsFromFrontmatter(frontmatter, tagsToRemove, normalize, patterns) ==
    LET currentTags == tagsAsArray(frontmatter.tags)
        Goes(tag) == shouldRemove(tag, tagsToRemove, normalize, patterns)
        removed == SelectSeq(currentTags, Goes)
        remainingTags == SelectSeq(currentTags, LAMBDA tag : ~Goes(tag))
        field == IF Len(remainingTags) = 0 THEN AbsentField
                 ELSE TagsField("array", sortTags(remainingTags))
    IN [frontmatter |-> [frontmatter EXCEPT !.tags = field],
        result |-> Returned([removed |-> removed, preserved |-> remainingTags])]

\* Tags fields a frontmatter starts with.
TagsFields ==
    {AbsentField, TagsField("other", <<>>)}
    \cup {TagsField("string", <<t>>) : t \in StoredTags}
    \cup {TagsField("array", a) : a \in SeqsUpTo(StoredTags, MaxFrontmatterTags)}

InitTagsFrontmatter ==
    /\ \E field \in TagsFields, tags \in SeqsUpTo(InputTags, MaxFrontmatterTags),
          normalize \in BOOLEAN, patterns \in PatternLists,
          fn \in {"addTagsToFrontmatter", "removeTagsFromFrontmatter"} :
          /\ fn = "addTagsToFrontmatter" => patterns = <<>>
          /\ arg = [fn |-> fn,
                    frontmatter |-> [tags |-> field, other |-> "value"],
                    tags |-> tags, normalize |-> normalize, patterns |-> patterns,
                    history |-> <<[tags |-> field, other |-> "value"]>>]
    /\ ret = Pending
    /\ files = NoFiles
    /\ calls = NoCalls
    /\ now = 0
    /\ dailyNoteConfigCache = Null

\* One call of the function with the same arguments on the same object.
ApplyTagsCall(fn, outcome) ==
    /\ arg.fn = fn
    /\ Len(arg.history) <= MaxApplications
    /\ arg' = [arg EXCEPT !.frontmatter = outcome.frontmatter,
                          !.history = Append(@, outcome.frontmatter)]
    /\ ret' = outcome.result
    /\ UNCHANGED <<dailyNoteConfigCache, files, calls, now>>

CallAddTagsToFrontmatter ==
    ApplyTagsCall("addTagsToFrontmatter",
                  addTagsToFrontmatter(arg.frontmatter, arg.tags, arg.normalize))

CallRemoveTagsFromFrontmatter ==
    ApplyTagsCall("removeTagsFromFrontmatter",
                  removeTagsFromFrontmatter(arg.frontmatter, arg.tags,
                                            arg.normalize, arg.patterns))

NextTagsFrontmatter ==
    \/ CallAddTagsToFrontmatter
    \/ CallRemoveTagsFromFrontmatter

SpecTagsFrontmatter == InitTagsFrontmatter /\ [][NextTagsFrontmatter]_vars

AddTagsReturned ==
    arg.fn = "addTagsToFrontmatter" /\ ret # Pending /\ ret.kind = "return"

RemoveTagsReturned ==
    arg.fn = "removeTagsFromFrontmatter" /\ ret # Pending /\ ret.kind = "return"

IsSorted(array) ==
    \A i, j \in DOMAIN array :
        i < j => \E a, b \in DOMAIN CodeUnitOrder :
                    a <= b /\ CodeUnitOrder[a] = array[i] /\ CodeUnitOrder[b] = array[j]

\* The tags field has the single-tag convention's form.
ConventionForm(field) ==
    CASE Len(tagsAsArray(field)) = 0 -> field = AbsentField
      [] Len(tagsAsArray(field)) = 1 -> field.form = "string"
      [] OTHER -> field.form = "array" /\ IsSorted(field.tags)

\* The tags field is absent or a sorted non-empty array.
ArrayForm(field) ==
    \/ field = AbsentField
    \/ field.form = "array" /\ field.tags # <<>> /\ IsSorted(field.tags)

\* C17 as stated: after addTagsToFrontmatter or removeTagsFromFrontmatter
\* returns, the tags field is a bare string if one tag remains, a sorted
\* array if two or more remain, and absent if none remain.
C17_TagsFormAsStated ==
    (AddTagsReturned \/ RemoveTagsReturned) => ConventionForm(arg.frontmatter.tags)

\* C17: after addTagsToFrontmatter returns, the tags field is a bare string
\* if one tag remains, a sorted array if two or more remain and absent if
\* none remain; after removeTagsFromFrontmatter returns it is absent if no
\* tag remains and a sorted array otherwise, also when one tag remains.
C17_TagsForm ==
    /\ AddTagsReturned => ConventionForm(arg.frontmatter.tags)
    /\ RemoveTagsReturned => ArrayForm(arg.frontmatter.tags)

\* C17 witness: a removal took one of two tags away and left the other in a
\* one-element array.
C17_Witness ==
    /\ RemoveTagsReturned
    /\ Len(arg.history[1].tags.tags) = 2
    /\ Len(ret.value.removed) = 1
    /\ arg.frontmatter.tags.form = "array"
    /\ Len(arg.frontmatter.tags.tags) = 1

\* None of the tags to remove is held by the frontmatter the call started
\* with, and no pattern is given.
NoneHeld ==
    /\ arg.fn = "removeTagsFromFrontmatter"
    /\ arg.patterns = <<>>
    /\ \A k \in DOMAIN arg.tags, t \in Range(tagsAsArray(arg.history[1].tags)) :
          normalizeTag(arg.tags[k], arg.normalize) # normalizeTag(t, arg.normalize)

\* C18 as stated: removeTagsFromFrontmatter with tags none of which the
\* frontmatter holds raises no error and leaves the mapping unchanged,
\* including the form and the order of its tags field.
C18_RemoveAbsentAsStated ==
    (NoneHeld /\ ret # Pending)
    => /\ ret.kind = "return"
       /\ arg.frontmatter = arg.history[1]

\* The tags field holds a string or a non-empty array of strings.
HoldsTags(field) == field.form \in {"string", "array"} /\ field.tags # <<>>

\* C18: removeTagsFromFrontmatter with tags none of which the frontmatter
\* holds raises no error, leaves every other key as it is and keeps every
\* tag, writing a tags field that held tags back as the sorted array of
\* those tags and leaving no tags field where none held a tag; a second call
\* with the same tags changes nothing.
C18_RemoveAbsent ==
    /\ (NoneHeld /\ ret # Pending)
       => /\ ret.kind = "return"
          /\ ret.value.removed = <<>>
          /\ arg.frontmatter.other = arg.history[1].other
          /\ HoldsTags(arg.history[1].tags)
             => arg.frontmatter.tags =
                   TagsField("array", sortTags(arg.history[1].tags.tags))
          /\ ~HoldsTags(arg.history[1].tags) => arg.frontmatter.tags = AbsentField
    /\ (arg.fn = "removeTagsFromFrontmatter" /\ arg.patterns = <<>> /\ Len(arg.history) = 3)
       => /\ ret.kind = "return"
          /\ ret.value.removed = <<>>
          /\ arg.history[3] = arg.history[2]

\* C18 witness: a removal of a tag the frontmatter does not hold returned
\* for a frontmatter whose tags field is a string.
C18_Witness ==
    /\ NoneHeld
    /\ ret # Pending
    /\ arg.tags # <<>>
    /\ arg.history[1].tags.form = "string"
    /\ arg.frontmatter.tags.form = "array"

\* Number of entries of the tags field equal to the tag.
Entries(field, tag) == Len(SelectSeq(tagsAsArray(field), LAMBDA t : t = tag))

\* C19: addTagsToFrontmatter leaves exactly one entry for every tag it was
\* given, also for one the frontmatter already held as a string or as an
\* array element, and a second call with the same tags leaves the tags
\* field the first call produced.
C19_AddIdempotent ==
    /\ AddTagsReturned
       => \A k \in DOMAIN arg.tags :
             /\ Entries(arg.frontmatter.tags, normalizeTag(arg.tags[k], arg.normalize)) = 1
             /\ Entries(arg.history[1].tags, arg.tags[k]) > 0
                => Entries(arg.frontmatter.tags, arg.tags[k]) = 1
    /\ (AddTagsReturned /\ Len(arg.history) = 3)
       => arg.history[3] = arg.history[2]

\* C19 witness: the same add ran twice on a frontmatter that already held
\* one of the added tags in an array of two.
C19_Witness ==
    /\ AddTagsReturned
    /\ Len(arg.history) = 3
    /\ arg.history[1].tags.form = "array"
    /\ Len(arg.history[1].tags.tags) = 2
    /\ \E k \in DOMAIN arg.tags : Entries(arg.history[1].tags, arg.tags[k]) > 0
    /\ \E k \in DOMAIN arg.tags : Entries(arg.history[1].tags, arg.tags[k]) = 0

(***************************************************************************)
(* get-daily-note-path (src/tools/get-daily-note-path/index.ts): the       *)
(* configuration cache of one vault, two calls in flight, a clock and a    *)
(* configuration file that changes on disk.  A configuration is one token: *)
(* F1 (an object with a format string), NOFORMAT (an object without       *)
(* a format), BADFORMAT (a format that is no string, which the formatter   *)
(* throws on), JSONNULL (the JSON text null), BAD (no JSON).               *)
(***************************************************************************)

MaxTicks == 3

CACHE_DURATION_MS == 60000

\* The clock advances in steps of half the cache duration.
TickMs == CACHE_DURATION_MS \div 2

configFilePath == <<"vault", ".obsidian", "daily-notes.json">>

ConfigContents == {"F1", "NOFORMAT", "BADFORMAT", "JSONNULL", "BAD"}

\* JSON.parse throws a SyntaxError.
jsonParseThrows(content) == content = "BAD"

\* !config.format
formatMissing(config) == config = "NOFORMAT"

\* formatSimpleDate throws: format.replace is not a function.
formatThrows(config) == config = "BADFORMAT"

\* Reading config.format throws a TypeError.
configIsNull(config) == config = "JSONNULL"

\* Mutant: an entry stays valid up to and including the cache duration.
cacheIsValid_Inclusive(cachedEntry, current) ==
    cachedEntry # Null /\ current - cachedEntry.timestamp <= CACHE_DURATION_MS

\* cachedEntry && now - cachedEntry.timestamp < CACHE_DURATION_MS
cacheIsValid(cachedEntry, current) ==
    cachedEntry # Null /\ current - cachedEntry.timestamp < CACHE_DURATION_MS

\* Mutant: the entry is stamped with the time at which it is stored.
newCacheEntry_StampedAtSet(c, current) ==
    [kind |-> "entry", config |-> c.content, timestamp |-> current, readAt |-> c.readAt]

\* { config, timestamp: now }; readAt records when the file was read.
newCacheEntry(c, current) ==
    [kind |-> "entry", config |-> c.content, timestamp |-> c.now, readAt |-> c.readAt]

NewDailyCall(date) ==
    [tool |-> "get-daily-note-path", pc |-> "start", date |-> date, now |-> 0,
     cachedEntry |-> Null, content |-> "none", readAt |-> 0, readError |-> "none",
     served |-> "none", servedReadAt |-> 0, failure |-> "none", result |-> "none",
     cacheAtEnd |-> Null]

\* Lines 139-185 of getDailyNotePath for call c with the configuration it
\* uses: the cache it leaves and the call at its end.
useConfig(c, config, cache) ==
    LET left == IF configIsNull(config) THEN cache
                ELSE IF formatMissing(config) \/ c.date = "invalid" THEN Null
                ELSE IF formatThrows(config) /\ c.cachedEntry # Null THEN Null
                ELSE cache
        ended == [c EXCEPT !.pc = "done", !.cacheAtEnd = left]
    IN [cache |-> left,
        call |-> IF configIsNull(config)
                 THEN [ended EXCEPT !.result = "InternalError", !.failure = "invalid"]
                 ELSE IF formatMissing(config)
                 THEN [ended EXCEPT !.result = "InvalidRequest", !.failure = "invalid"]
                 ELSE IF c.date = "invalid"
                 THEN [ended EXCEPT !.result = "InvalidParams", !.failure = "date"]
                 ELSE IF formatThrows(config)
                 THEN [ended EXCEPT !.result = "InvalidParams", !.failure = "invalid"]
                 ELSE [ended EXCEPT !.result = config]]

\* Lines 104-110: Date.now(), the cache lookup, and with a valid entry the
\* rest of the function, which runs without a further await.
DailyStart(i) ==
    LET c == calls[i]
        started == [c EXCEPT !.now = now, !.cachedEntry = dailyNoteConfigCache]
    IN
    /\ c.tool = "get-daily-note-path" /\ c.pc = "start"
    /\ IF cacheIsValid(dailyNoteConfigCache, now)
       THEN LET used == useConfig([started EXCEPT
                                      !.served = "cache",
                                      !.servedReadAt = dailyNoteConfigCache.readAt],
                                  dailyNoteConfigCache.config, dailyNoteConfigCache)
            IN /\ calls' = [calls EXCEPT ![i] = used.call]
               /\ dailyNoteConfigCache' = used.cache
       ELSE /\ calls' = [calls EXCEPT ![i] = [started EXCEPT !.pc = "read"]]
            /\ UNCHANGED dailyNoteConfigCache
    /\ UNCHANGED <<arg, ret, files, now>>

\* Line 119: fs.readFile takes the content of the file, or fails.
DailyRead(i) ==
    LET c == calls[i]
        file == FileAt(configFilePath)
    IN
    /\ c.tool = "get-daily-note-path" /\ c.pc = "read"
    /\ \E outcome \in {"ok", "ENOENT", "EIO"} :
          /\ outcome = "ok" => Exists(files, file)
          /\ outcome = "ENOENT" => ~Exists(files, file)
          /\ calls' = [calls EXCEPT ![i] =
                IF outcome = "ok"
                THEN [c EXCEPT !.pc = "resume", !.content = files[file][1],
                               !.readAt = now, !.served = "disk"]
                ELSE [c EXCEPT !.pc = "resume", !.readError = outcome]]
    /\ UNCHANGED <<dailyNoteConfigCache, arg, ret, files, now>>

\* Lines 119-185 after the await: JSON.parse, the cache update and the rest
\* of the function, or the error of the read.
DailyResume(i) ==
    LET c == calls[i] IN
    /\ c.tool = "get-daily-note-path" /\ c.pc = "resume"
    /\ IF c.readError # "none"
       THEN /\ calls' = [calls EXCEPT ![i] =
                  [c EXCEPT !.pc = "done", !.failure = "read",
                            !.cacheAtEnd = dailyNoteConfigCache,
                            !.result = IF c.readError = "ENOENT" THEN "InvalidParams"
                                       ELSE handleFsError]]
            /\ UNCHANGED dailyNoteConfigCache
       ELSE IF jsonParseThrows(c.content)
       THEN /\ calls' = [calls EXCEPT ![i] =
                  [c EXCEPT !.pc = "done", !.failure = "parse",
                            !.cacheAtEnd = dailyNoteConfigCache,
                            !.result = "InternalError"]]
            /\ UNCHANGED dailyNoteConfigCache
       ELSE LET used == useConfig(c, c.content, newCacheEntry(c, now)) IN
            /\ calls' = [calls EXCEPT ![i] = used.call]
            /\ dailyNoteConfigCache' = used.cache
    /\ UNCHANGED <<arg, ret, files, now>>

\* Time passes.
Tick ==
    /\ now < MaxTicks * TickMs
    /\ now' = now + TickMs
    /\ UNCHANGED <<dailyNoteConfigCache, arg, ret, files, calls>>

\* The configuration file is rewritten or removed behind the server's back.
ConfigChange ==
    /\ \/ \E content \in ConfigContents :
             files' = WriteFile(files, FileAt(configFilePath), <<content>>)
       \/ /\ Exists(files, FileAt(configFilePath))
          /\ files' = Unlink(files, FileAt(configFilePath))
    /\ UNCHANGED <<dailyNoteConfigCache, arg, ret, calls, now>>

DailyDates == {"valid", "invalid"}

InitDaily ==
    /\ arg = NoArg
    /\ ret = Pending
    /\ now = 0
    /\ dailyNoteConfigCache = Null
    /\ \/ files = NoFiles
       \/ \E content \in ConfigContents :
             files = WriteFile(NoFiles, FileAt(configFilePath), <<content>>)
    /\ \E d \in DailyDates : calls = <<NewDailyCall("valid"), NewDailyCall(d)>>

NextDaily ==
    \/ \E i \in DOMAIN calls : DailyStart(i)
    \/ \E i \in DOMAIN calls : DailyRead(i)
    \/ \E i \in DOMAIN calls : DailyResume(i)
    \/ Tick
    \/ ConfigChange

SpecDaily == InitDaily /\ [][NextDaily]_vars

DailyCalls == {i \in DOMAIN calls : calls[i].tool = "get-daily-note-path"}

\* C21: a call that starts less than 60 seconds after the timestamp of the
\* cache entry uses the cached configuration and does not read the file;
\* a call that starts 60 seconds or more after it goes to read the file.
C21_CacheServesWithinTtl ==
    \A i \in DailyCalls :
        LET c == calls[i] IN
        (c.pc # "start" /\ c.cachedEntry # Null)
        => IF c.now - c.cachedEntry.timestamp < 60000
           THEN c.pc = "done" /\ c.served = "cache" /\ c.content = "none"
                /\ c.readError = "none"
           ELSE c.served # "cache"
                /\ (c.pc = "read" \/ c.content # "none" \/ c.readError # "none")

\* C21 witness: a call that started less than 60 seconds after the entry's
\* timestamp was served the cached format while the file on disk no longer
\* held it.
C21_Witness ==
    \E i \in DailyCalls :
        /\ calls[i].served = "cache"
        /\ calls[i].result = "F1"
        /\ calls[i].now > calls[i].cachedEntry.timestamp
        /\ ~Exists(files, FileAt(configFilePath))
           \/ files[FileAt(configFilePath)] # <<"F1">>

\* C22: after a call that failed because the configuration file could not
\* be read, could not be parsed or is invalid (no format, or a format the
\* formatter rejects), the cache held no entry for the vault when the call
\* ended.
C22_FailureInvalidatesCache ==
    \A i \in DailyCalls :
        LET c == calls[i] IN
        (c.pc = "done" /\ c.failure \in {"read", "parse", "invalid"})
        => c.cacheAtEnd = Null

\* C30: the timestamp of a cache entry is never later than the moment its
\* configuration was read from disk, and a configuration served from the
\* cache was read less than 60 seconds before the serving call started.
C30_TimestampNotAfterRead ==
    /\ dailyNoteConfigCache # Null
       => dailyNoteConfigCache.timestamp <= dailyNoteConfigCache.readAt
    /\ \A i \in DailyCalls :
          calls[i].served = "cache"
          => /\ calls[i].cachedEntry.timestamp <= calls[i].cachedEntry.readAt
             /\ calls[i].now - calls[i].servedReadAt < 60000

\* C30 witness: a call was served from the cache an entry that another call
\* had read from disk some time after that call's own start.
C30_Witness ==
    \E i \in DailyCalls :
        /\ calls[i].served = "cache"
        /\ calls[i].cachedEntry.timestamp < calls[i].cachedEntry.readAt
        /\ calls[i].result = "F1"

(***************************************************************************)
(* formatSimpleDate (src/tools/get-daily-note-path/index.ts).  A format is *)
(* a sequence of characters; the result is a sequence of characters and of *)
(* substituted values ("2024", "06", "ednesday").                          *)
(***************************************************************************)

MaxFormatChars == 5

FormatChars == {"Y", "M", "D", "d", "W", "-"}

\* Local dates: a Saturday, a Wednesday, a Monday that opens ISO week 1, a
\* Sunday in the last ISO week of the year before, a Monday in ISO week 1 of
\* the year after.
Dates ==
    {[year |-> 2024, month |-> 6, day |-> 1], [year |-> 2024, month |-> 6, day |-> 5],
     [year |-> 2024, month |-> 1, day |-> 1], [year |-> 2023, month |-> 1, day |-> 1],
     [year |-> 2024, month |-> 12, day |-> 30]}

\* Days from 1970-01-01 to the date.
DayNumber(date) ==
    LET y == IF date.month <= 2 THEN date.year - 1 ELSE date.year
        era == y \div 400
        yoe == y - era * 400
        mp == IF date.month > 2 THEN date.month - 3 ELSE date.month + 9
        doy == (153 * mp + 2) \div 5 + date.day - 1
        doe == yoe * 365 + yoe \div 4 - yoe \div 100 + doy
    IN era * 146097 + doe - 719468

\* Date.prototype.getDay of the day with that number: 0 is Sunday.
getDay(dayNumber) == (dayNumber + 4) % 7

\* String(n) and String(n).padStart(2, "0") for n below 100.
DigitOf(n) ==
    CASE n = 0 -> "0" [] n = 1 -> "1" [] n = 2 -> "2" [] n = 3 -> "3" [] n = 4 -> "4"
      [] n = 5 -> "5" [] n = 6 -> "6" [] n = 7 -> "7" [] n = 8 -> "8" [] n = 9 -> "9"

StringOf(n) == IF n < 10 THEN DigitOf(n) ELSE DigitOf(n \div 10) \o DigitOf(n % 10)

padStart2(n) == IF n < 10 THEN "0" \o DigitOf(n) ELSE StringOf(n)

YearString(year) == StringOf(year \div 100) \o padStart2(year % 100)

\* dayNames[dayOfWeek], with the capital letters that are format characters
\* kept apart.
dayNames(dayOfWeek) ==
    CASE dayOfWeek = 0 -> <<"Sunday">>
      [] dayOfWeek = 1 -> <<"M", "onday">>
      [] dayOfWeek = 2 -> <<"Tuesday">>
      [] dayOfWeek = 3 -> <<"W", "ednesday">>
      [] dayOfWeek = 4 -> <<"Thursday">>
      [] dayOfWeek = 5 -> <<"Friday">>
      [] dayOfWeek = 6 -> <<"Saturday">>

\* Lines 75-86: the week number of the date.
weekNumber(date) ==
    LET tempDate == DayNumber(date) + 3 - ((getDay(DayNumber(date)) + 6) % 7)
        thisYear == DayNumber([year |-> date.year, month |-> 1, day |-> 1])
        nextYear == DayNumber([year |-> date.year + 1, month |-> 1, day |-> 1])
        fullYear == IF tempDate < thisYear THEN date.year - 1
                    ELSE IF tempDate >= nextYear THEN date.year + 1 ELSE date.year
        week1 == DayNumber([year |-> fullYear, month |-> 1, day |-> 4])
    IN 1 + (tempDate - week1 - 3 + ((getDay(week1) + 6) % 7)) \div 7

\* String.prototype.replace(/pattern/g, value)
RECURSIVE replaceAll(_, _, _)
replaceAll(text, pattern, value) ==
    IF text = <<>> THEN <<>>
    ELSE IF StartsWith(text, pattern)
    THEN value \o replaceAll(Drop(text, Len(pattern)), pattern, value)
    ELSE <<Head(text)>> \o replaceAll(Tail(text), pattern, value)

formatSimpleDate(date, formatString) ==
    LET f1 == replaceAll(formatString, <<"Y", "Y", "Y", "Y">>, <<YearString(date.year)>>)
        f2 == replaceAll(f1, <<"M", "M">>, <<padStart2(date.month)>>)
        f3 == replaceAll(f2, <<"M">>, <<StringOf(date.month)>>)
        f4 == replaceAll(f3, <<"D", "D">>, <<padStart2(date.day)>>)
        f5 == replaceAll(f4, <<"D">>, <<StringOf(date.day)>>)
        f6 == replaceAll(f5, <<"d", "d", "d", "d">>, dayNames(getDay(DayNumber(date))))
    IN IF Contains(formatString, "W")
       THEN replaceAll(replaceAll(f6, <<"W", "W">>, <<padStart2(weekNumber(date))>>),
                       <<"W">>, <<StringOf(weekNumber(date))>>)
       ELSE f6

\* The format of the daily-notes plugin's documentation example.
ExampleFormat ==
    <<"Y", "Y", "Y", "Y", "-", "M", "M", "-", "D", "D", " ", "d", "d", "d", "d">>

InitFormat ==
    /\ \E date \in Dates,
          format \in SeqsUpTo(FormatChars, MaxFormatChars) \cup {ExampleFormat} :
          arg = [fn |-> "formatSimpleDate", date |-> date, format |-> format]
    /\ ret = Pending
    /\ files = NoFiles
    /\ calls = NoCalls
    /\ now = 0
    /\ dailyNoteConfigCache = Null

CallFormatSimpleDate ==
    /\ arg.fn = "formatSimpleDate"
    /\ ret = Pending
    /\ ret' = Returned(formatSimpleDate(arg.date, arg.format))
    /\ UNCHANGED <<dailyNoteConfigCache, arg, files, calls, now>>

NextFormat == CallFormatSimpleDate

SpecFormat == InitFormat /\ [][NextFormat]_vars

\* The ISO 8601 week of each date.
IsoWeek(date) ==
    CASE date = [year |-> 2024, month |-> 6, day |-> 1] -> 22
      [] date = [year |-> 2024, month |-> 6, day |-> 5] -> 23
      [] date = [year |-> 2024, month |-> 1, day |-> 1] -> 1
      [] date = [year |-> 2023, month |-> 1, day |-> 1] -> 52
      [] date = [year |-> 2024, month |-> 12, day |-> 30] -> 1

\* The weekday of each date.
Weekday(date) ==
    CASE date = [year |-> 2024, month |-> 6, day |-> 1] -> <<"Saturday">>
      [] date = [year |-> 2024, month |-> 6, day |-> 5] -> <<"W", "ednesday">>
      [] date = [year |-> 2024, month |-> 1, day |-> 1] -> <<"M", "onday">>
      [] date = [year |-> 2023, month |-> 1, day |-> 1] -> <<"Sunday">>
      [] date = [year |-> 2024, month |-> 12, day |-> 30] -> <<"M", "onday">>

\* The format read from left to right, the longest token first: every token
\* replaced by the date's value, every other character kept.
RECURSIVE TokensReplaced(_, _)
TokensReplaced(format, date) ==
    LET Rest(n) == TokensReplaced(Drop(format, n), date) IN
    IF format = <<>> THEN <<>>
    ELSE IF StartsWith(format, <<"Y", "Y", "Y", "Y">>) THEN <<YearString(date.year)>> \o Rest(4)
    ELSE IF StartsWith(format, <<"M", "M">>) THEN <<padStart2(date.month)>> \o Rest(2)
    ELSE IF StartsWith(format, <<"M">>) THEN <<StringOf(date.month)>> \o Rest(1)
    ELSE IF StartsWith(format, <<"D", "D">>) THEN <<padStart2(date.day)>> \o Rest(2)
    ELSE IF StartsWith(format, <<"D">>) THEN <<StringOf(date.day)>> \o Rest(1)
    ELSE IF StartsWith(format, <<"d", "d", "d", "d">>) THEN Weekday(date) \o Rest(4)
    ELSE IF StartsWith(format, <<"W", "W">>) THEN <<padStart2(IsoWeek(date))>> \o Rest(2)
    ELSE IF StartsWith(format, <<"W">>) THEN <<StringOf(IsoWeek(date))>> \o Rest(1)
    ELSE <<Head(format)>> \o Rest(1)

FormatReturned == arg.fn = "formatSimpleDate" /\ ret # Pending

\* C23: for every date and every format made of the supported tokens and
\* separators, formatSimpleDate replaces each token by the date's value and
\* changes nothing else; "YYYY-MM-DD dddd" on 2024-06-01 gives
\* "2024-06-01 Saturday".
C23_FormatReplacesTokens ==
    FormatReturned
    => /\ ret.value = TokensReplaced(arg.format, arg.date)
       /\ (arg.format = ExampleFormat /\ arg.date = [year |-> 2024, month |-> 6, day |-> 1])
          => ret.value = <<"2024", "-", "06", "-", "01", " ", "Saturday">>

(***************************************************************************)
(* Two edit-note append calls in flight on the note /vault/n.md, with the  *)
(* clock advancing between their steps.                                    *)
(***************************************************************************)

MaxClock == 1

OriginalNote == <<"T">>

InitEditPair ==
    /\ arg = NoArg
    /\ ret = Pending
    /\ now = 0
    /\ dailyNoteConfigCache = Null
    /\ files = InitialFiles(OriginalNote)
    /\ \E r \in {<<"n.md">>, <<"n">>} :
         calls = <<NewCall("edit-note", <<"n.md">>, "append", <<"P">>),
                   NewCall("edit-note", r, "append", <<"Q", "SP">>)>>

\* A millisecond passes.
ClockTick ==
    /\ now < MaxClock
    /\ now' = now + 1
    /\ UNCHANGED <<dailyNoteConfigCache, arg, ret, files, calls>>

NextEditPair ==
    \/ \E i \in DOMAIN calls : EditStart(i)
    \/ \E i \in DOMAIN calls : EditCheckExists(i)
    \/ \E i \in DOMAIN calls : EditSnapshot(i)
    \/ \E i \in DOMAIN calls : EditRead(i)
    \/ \E i \in DOMAIN calls : EditWrite(i)
    \/ \E i \in DOMAIN calls : EditCommit(i)
    \/ \E i \in DOMAIN calls : EditRollbackExists(i)
    \/ \E i \in DOMAIN calls : EditRollbackCopy(i)
    \/ \E i \in DOMAIN calls : EditRollbackUnlink(i)
    \/ ClockTick

SpecEditPair == InitEditPair /\ [][NextEditPair]_vars

BothSucceeded ==
    \A i \in EditCalls : calls[i].pc = "done" /\ calls[i].result = "success"

\* The note after an append of the content to the text.
AppendedTo(text, content) == JoinedWithBlankLine(Trim(text), Trim(content))

TheNote == files[FileAt(<<"vault", "n.md">>)]

\* The final note holds the content of only one of the two calls.
OneAppendLost ==
    \/ TheNote = AppendedTo(OriginalNote, <<"P">>)
    \/ TheNote = AppendedTo(OriginalNote, <<"Q">>)

\* C24: edits to one note are not serialized.  When two concurrent append
\* calls have both reported success, the note holds either both contents in
\* one of the two orders, or the original text with the content of only one
\* of the calls.
C24_ConcurrentAppendOutcomes ==
    BothSucceeded
    => \/ OneAppendLost
       \/ TheNote = AppendedTo(AppendedTo(OriginalNote, <<"P">>), <<"Q">>)
       \/ TheNote = AppendedTo(AppendedTo(OriginalNote, <<"Q">>), <<"P">>)

\* C24 witness: both calls reported success and the note holds the appended
\* content of only one of them.
C24_Witness == BothSucceeded /\ OneAppendLost

\* The call has chosen its backup path and has not returned.
HoldsBackupPath(c) ==
    c.tool = "edit-note" /\ c.pc \notin {"start", "exists", "done"}

\* C25: two edit-note calls on the same note that are in flight at the same
\* time use different backup paths.
C25_BackupPathsDiffer ==
    \A i, j \in EditCalls :
        (i # j /\ HoldsBackupPath(calls[i]) /\ HoldsBackupPath(calls[j]))
        => calls[i].backupPath # calls[j].backupPath

(***************************************************************************)
(* getAllMarkdownFiles and getAllNonMarkdownFiles (src/utils/files.ts):    *)
(* the check of the search directory against the vault /vault.  A search   *)
(* directory is absolute ("/" before its first segment) or relative.       *)
(***************************************************************************)

MaxDirSegments == 3

DirSegments == {"vault", "vault2", "sub", ".", "..", "q?"}

\* normalizePath (src/utils/path.ts) on a POSIX path: the error it throws,
\* the resolved path for a path that begins with "./" or "../", and any
\* other path as it is.
normalizePath(inputPath) ==
    IF inputPath.segments = <<>> /\ ~inputPath.absolute THEN Thrown("InvalidRequest")
    ELSE IF inputPath.segments # <<>>
            /\ hasInvalidFilenameChars(inputPath.segments[Len(inputPath.segments)])
    THEN Thrown("InvalidRequest")
    ELSE IF ~inputPath.absolute /\ Len(inputPath.segments) > 1
            /\ inputPath.segments[1] \in {".", ".."}
    THEN Returned([absolute |-> TRUE,
                   segments |-> ResolveSegments(Cwd \o inputPath.segments, <<>>)])
    ELSE Returned(inputPath)

\* normalizedDir.startsWith(normalizedVaultPath) for the vault path "/vault":
\* a comparison of characters, met by every first segment that begins with
\* the letters of "vault".
startsWithVaultPath(normalizedDir) ==
    /\ normalizedDir.absolute
    /\ normalizedDir.segments # <<>>
    /\ normalizedDir.segments[1] \in {"vault", "vault2"}

VaultDir == [absolute |-> TRUE, segments |-> Vault]

\* The empty string, which getAllNonMarkdownFiles takes as no search directory.
NoSearchDir == [absolute |-> FALSE, segments |-> <<>>]

AtGuard(code) == [kind |-> "throw", code |-> code, at |-> "guard"]

AtReaddir(code) == [kind |-> "throw", code |-> code, at |-> "readdir"]

\* Lines 26-68 and 127-160: the guard and fs.readdir with its outcome; a
\* directory that is read is returned as the place the scan lists.
getAllFiles(fn, dir, readdir) ==
    LET normalizedDir == IF fn = "getAllNonMarkdownFiles" /\ dir = NoSearchDir
                         THEN Returned(VaultDir)
                         ELSE normalizePath(dir) IN
    IF normalizedDir.kind = "throw" THEN AtGuard(normalizedDir.code)
    ELSE IF ~startsWithVaultPath(normalizedDir.value) THEN AtGuard("InvalidRequest")
    ELSE IF readdir = "ok" THEN Returned(normalizedDir.value)
    ELSE IF readdir = "ENOENT"
    THEN IF normalizedDir.value # VaultDir THEN Returned(Null)
         ELSE AtReaddir("InvalidRequest")
    ELSE AtReaddir("InternalError")

InitSearchDir ==
    /\ \E absolute \in BOOLEAN, segments \in SeqsUpTo(DirSegments, MaxDirSegments),
          fn \in {"getAllMarkdownFiles", "getAllNonMarkdownFiles"},
          readdir \in {"ok", "ENOENT", "EACCES"} :
          arg = [fn |-> fn, dir |-> [absolute |-> absolute, segments |-> segments],
                 readdir |-> readdir]
    /\ ret = Pending
    /\ files = NoFiles
    /\ calls = NoCalls
    /\ now = 0
    /\ dailyNoteConfigCache = Null

CallGetAllMarkdownFiles ==
    /\ arg.fn = "getAllMarkdownFiles"
    /\ ret = Pending
    /\ ret' = getAllFiles(arg.fn, arg.dir, arg.readdir)
    /\ UNCHANGED <<dailyNoteConfigCache, arg, files, calls, now>>

CallGetAllNonMarkdownFiles ==
    /\ arg.fn = "getAllNonMarkdownFiles"
    /\ ret = Pending
    /\ ret' = getAllFiles(arg.fn, arg.dir, arg.readdir)
    /\ UNCHANGED <<dailyNoteConfigCache, arg, files, calls, now>>

NextSearchDir ==
    \/ CallGetAllMarkdownFiles
    \/ CallGetAllNonMarkdownFiles

SpecSearchDir == InitSearchDir /\ [][NextSearchDir]_vars

\* The directory the path names: relative paths are taken from the working
\* directory, "." and ".." are resolved.
DirectoryNamed(dir) ==
    ResolveSegments(IF dir.absolute THEN dir.segments ELSE Cwd \o dir.segments, <<>>)

\* The vault root or a descendant of it.
WithinVault(dir) == StartsWith(DirectoryNamed(dir), Vault)

SearchDirReturned ==
    /\ arg.fn \in {"getAllMarkdownFiles", "getAllNonMarkdownFiles"}
    /\ arg.dir # NoSearchDir
    /\ ret # Pending

\* C26: getAllMarkdownFiles and getAllNonMarkdownFiles throw InvalidRequest
\* for every search directory that is neither the vault root nor below it,
\* a sibling whose name begins with the vault's name and a path that leaves
\* the vault through ".." included.
C26_SearchDirOutsideRejected ==
    (SearchDirReturned /\ ~WithinVault(arg.dir))
    => ret.kind = "throw" /\ ret.code = "InvalidRequest"

(***************************************************************************)
(* removeInlineTags (src/utils/tags.ts), on the tokens of extractTags.     *)
(* The options are the defaults: normalize, no patterns, children removed. *)
(***************************************************************************)

MaxRemoveTokens == 4

\* The pattern of lines 376 and 389 matches at position i: a tag with no
\* backtick before it and none after it.  A tag followed by a backtick is
\* matched without its last character, a different, shorter tag.
inlineTagMatchesAt(line, i) ==
    /\ line[i] \in TagTokens
    /\ i > 1 => line[i - 1] \notin BacktickTokens
    /\ i < Len(line) => line[i + 1] \notin BacktickTokens

\* tagsToRemove.some(...) of lines 393-409 for the tags "a" and "b", which
\* normalizeTag leaves as they are and of which neither is the parent of
\* the other.
shouldRemoveInline(tagsToRemove, tag) == tag \in tagsToRemove

\* line.replace of lines 389-432 from position i on.
RECURSIVE replaceInlineTags(_, _, _)
replaceInlineTags(line, i, tagsToRemove) ==
    IF i > Len(line) THEN <<>>
    ELSE IF inlineTagMatchesAt(line, i) /\ shouldRemoveInline(tagsToRemove, tagName(line[i]))
    THEN replaceInlineTags(line, i + 1, tagsToRemove)
    ELSE <<line[i]>> \o replaceInlineTags(line, i + 1, tagsToRemove)

\* lines.map of lines 366-433.
RECURSIVE mapInlineLines(_, _, _, _)
mapInlineLines(lines, inCodeBlock, inHtmlComment, tagsToRemove) ==
    IF lines = <<>> THEN <<>>
    ELSE LET line == Head(lines) IN
         IF startsWithFence(line)
         THEN <<line>> \o mapInlineLines(Tail(lines), ~inCodeBlock, inHtmlComment,
                                         tagsToRemove)
         ELSE LET opened == IF Contains(line, "CO") THEN TRUE ELSE inHtmlComment
                  comment == IF Contains(line, "CC") THEN FALSE ELSE opened
              IN <<IF inCodeBlock \/ comment THEN line
                   ELSE replaceInlineTags(line, 1, tagsToRemove)>>
                 \o mapInlineLines(Tail(lines), inCodeBlock, comment, tagsToRemove)

\* modifiedLines.reduce of lines 436-444: a blank line after a blank line is
\* dropped.
RECURSIVE cleanUpEmptyLines(_, _)
cleanUpEmptyLines(lines, acc) ==
    IF lines = <<>> THEN acc
    ELSE IF Trim(Head(lines)) = <<>> /\ acc # <<>> /\ Trim(acc[Len(acc)]) = <<>>
    THEN cleanUpEmptyLines(Tail(lines), acc)
    ELSE cleanUpEmptyLines(Tail(lines), Append(acc, Head(lines)))

removeInlineTags(content, tagsToRemove) ==
    JoinWithNewline(cleanUpEmptyLines(
        mapInlineLines(SplitNewline(content, <<>>), FALSE, FALSE, tagsToRemove), <<>>))

InitRemoveInline ==
    /\ \E content \in SeqsUpTo(TagLineTokens, MaxRemoveTokens),
          tagsToRemove \in SUBSET {"a", "b"} :
          arg = [fn |-> "removeInlineTags", content |-> content,
                 tagsToRemove |-> tagsToRemove]
    /\ ret = Pending
    /\ files = NoFiles
    /\ calls = NoCalls
    /\ now = 0
    /\ dailyNoteConfigCache = Null

CallRemoveInlineTags ==
    /\ arg.fn = "removeInlineTags"
    /\ ret = Pending
    /\ ret' = Returned(removeInlineTags(arg.content, arg.tagsToRemove))
    /\ UNCHANGED <<dailyNoteConfigCache, arg, files, calls, now>>

NextRemoveInline == CallRemoveInlineTags

SpecRemoveInline == InitRemoveInline /\ [][NextRemoveInline]_vars

\* Whether the text is inside an HTML comment after the tokens.
RECURSIVE InCommentAfter(_, _)
InCommentAfter(tokens, inComment) ==
    IF tokens = <<>> THEN inComment
    ELSE IF inComment THEN InCommentAfter(Tail(tokens), Head(tokens) # "CC")
    ELSE InCommentAfter(Tail(tokens), Head(tokens) = "CO")

\* Every token of the line, from position i on, is part of an HTML comment,
\* its "<!--" and "-->" included.
RECURSIVE AllInComment(_, _, _)
AllInComment(line, i, inComment) ==
    IF i > Len(line) THEN TRUE
    ELSE IF inComment THEN AllInComment(line, i + 1, line[i] # "CC")
    ELSE line[i] = "CO" /\ AllInComment(line, i + 1, TRUE)

\* Line i lies inside an HTML comment: one that was opened on an earlier
\* line, or one that opens and closes on the line.
InsideComment(lines, i) ==
    LET before == JoinWithNewline(SubSeq(lines, 1, i - 1))
        inComment == InCommentAfter(before, FALSE)
    IN /\ inComment \/ lines[i] # <<>>
       /\ AllInComment(lines[i], 1, inComment)

\* Line i lies inside a fenced code block: an odd number of fence lines
\* precedes it.
InsideFence(lines, i) ==
    Cardinality({j \in 1..(i - 1) : startsWithFence(lines[j])}) % 2 = 1

HasFence(lines) == \E j \in DOMAIN lines : startsWithFence(lines[j])

HasComment(content) == Contains(content, "CO") \/ Contains(content, "CC")

RemoveInlineReturned == arg.fn = "removeInlineTags" /\ ret # Pending

\* C27: removeInlineTags returns unchanged every line inside a fenced code
\* block (in a text without HTML comments) and every line inside an HTML
\* comment (in a text without fences), whether the comment spans several
\* lines or opens and closes on the line, whatever tags are to be removed.
\* Stated for results that keep the number of lines.
C27_ProtectedLinesUnchanged ==
    RemoveInlineReturned
    => LET lines == SplitNewline(arg.content, <<>>)
           out == SplitNewline(ret.value, <<>>)
       IN Len(out) = Len(lines)
          => \A i \in DOMAIN lines :
                (\/ ~HasComment(arg.content) /\ InsideFence(lines, i)
                 \/ ~HasFence(lines) /\ InsideComment(lines, i))
                => out[i] = lines[i]

\* The same for fenced code blocks alone.
C27_FencedLinesUnchanged ==
    RemoveInlineReturned
    => LET lines == SplitNewline(arg.content, <<>>)
           out == SplitNewline(ret.value, <<>>)
       IN Len(out) = Len(lines)
          => \A i \in DOMAIN lines :
                (~HasComment(arg.content) /\ InsideFence(lines, i))
                => out[i] = lines[i]

(***************************************************************************)
(* addTagsToFrontmatter with tags written in camel case.                   *)
(***************************************************************************)

\* Tags a caller names, one in camel case among them.
CamelInputTags == InputTags \cup {"aB"}

InitTagsStored ==
    /\ \E field \in TagsFields, tags \in SeqsUpTo(CamelInputTags, MaxFrontmatterTags),
          normalize \in BOOLEAN :
          arg = [fn |-> "addTagsToFrontmatter",
                 frontmatter |-> [tags |-> field, other |-> "value"],
                 tags |-> tags, normalize |-> normalize, patterns |-> <<>>,
                 history |-> <<[tags |-> field, other |-> "value"]>>]
    /\ ret = Pending
    /\ files = NoFiles
    /\ calls = NoCalls
    /\ now = 0
    /\ dailyNoteConfigCache = Null

NextTagsStored == CallAddTagsToFrontmatter

SpecTagsStored == InitTagsStored /\ [][NextTagsStored]_vars

\* The tags the call put into the tags field: those it holds now and did
\* not hold before the first call.
TagsStoredByCall ==
    Range(tagsAsArray(arg.frontmatter.tags)) \ Range(tagsAsArray(arg.history[1].tags))

\* C28: every tag addTagsToFrontmatter stores in the tags field satisfies
\* validateTag, so that it can be passed to addTagsToFrontmatter again.
C28_StoredTagsValid ==
    AddTagsReturned => \A tag \in TagsStoredByCall : validateTag(tag)

(***************************************************************************)
(* get-tasks-in-note (findTasksInNote) and toggle-task, called one after   *)
(* the other by a client that waits for each response: get-tasks-in-note,  *)
(* toggle-task, get-tasks-in-note on the note /vault/n.md.                 *)
(***************************************************************************)

MaxNoteLines == 2

\* Lines of a note: text, tasks in both states, indented, with a carriage
\* return inside, at the start and at the end.
LineShapes ==
    {<<"T">>, <<"BOX0", "T">>, <<"SP", "BOX1", "T", "SP">>,
     <<"BOX0", "T", "CR", "T">>, <<"CR", "BOX1">>, <<"BOX1", "SP", "T", "CR">>}

LineBreaks == {<<"NL">>, <<"CR", "NL">>}

\* The notes of n lines.
RECURSIVE NotesOfLines(_)
NotesOfLines(n) ==
    IF n = 1 THEN LineShapes
    ELSE {a \o b \o l : a \in NotesOfLines(n - 1), b \in LineBreaks, l \in LineShapes}

TaskNoteContents == UNION {NotesOfLines(n) : n \in 1..MaxNoteLines}

\* tasks.push of lines 71-79 for the lines from number k on.
RECURSIVE findTasks(_, _)
findTasks(lines, k) ==
    IF k > Len(lines) THEN <<>>
    ELSE LET lineText == lines[k]
             box == CheckboxIndex(lineText, 1)
         IN IF box = 0 THEN findTasks(lines, k + 1)
            ELSE <<[text |-> Trim(UpToLineTerminator(Drop(lineText, box))),
                    checked |-> lineText[box] = "BOX1",
                    line |-> k]>> \o findTasks(lines, k + 1)

\* Lines 53-57 of findTasksInNote: the path and validateVaultPath.
TasksStart(i) ==
    LET c == calls[i]
        noteAbsPath == pathJoin(Vault, c.path)
    IN
    /\ c.tool = "get-tasks-in-note" /\ c.pc = "start"
    /\ calls' = [calls EXCEPT ![i] =
         IF validateVaultPathThrows(Vault, noteAbsPath)
         THEN Finished(c, "InvalidRequest")
         ELSE [c EXCEPT !.pc = "exists", !.fullPath = noteAbsPath,
                        !.before = ContentAt(files, FileAt(noteAbsPath))]]
    /\ UNCHANGED <<dailyNoteConfigCache, arg, ret, files, now>>

\* Lines 57-62: fileExists.
TasksCheckExists(i) ==
    LET c == calls[i] IN
    /\ c.tool = "get-tasks-in-note" /\ c.pc = "exists"
    /\ \E found \in fileExistsResults(files, FileAt(c.fullPath)) :
         calls' = [calls EXCEPT ![i] =
           IF found THEN [c EXCEPT !.pc = "read", !.found = "yes"]
           ELSE [Finished(c, "InvalidParams") EXCEPT !.found = "no"]]
    /\ UNCHANGED <<dailyNoteConfigCache, arg, ret, files, now>>

\* Lines 64-86: fs.readFile and the tasks of the lines read.
TasksRead(i) ==
    LET c == calls[i]
        note == FileAt(c.fullPath)
    IN
    /\ c.tool = "get-tasks-in-note" /\ c.pc = "read"
    /\ \/ /\ Exists(files, note)
          /\ calls' = [calls EXCEPT ![i] =
                [Finished(c, "success") EXCEPT
                    !.tasks = findTasks(SplitLines(files[note], <<>>), 1)]]
       \/ calls' = [calls EXCEPT ![i] = Finished(c, handleFsError)]
    /\ UNCHANGED <<dailyNoteConfigCache, arg, ret, files, now>>

NewTasksCall(tool, line) ==
    [NewCall(tool, <<"n.md">>, "none", <<>>) EXCEPT !.line = line] @@ [tasks |-> <<>>]

InitTasks ==
    /\ arg = NoArg
    /\ ret = Pending
    /\ now = 0
    /\ dailyNoteConfigCache = Null
    /\ \E a \in TaskNoteContents : files = InitialFiles(a)
    /\ \E n \in 1..MaxNoteLines :
         calls = <<NewTasksCall("get-tasks-in-note", 0),
                   NewTasksCall("toggle-task", n),
                   NewTasksCall("get-tasks-in-note", 0)>>

\* The client has the responses of the calls before call i.
Responded(i) == \A j \in 1..(i - 1) : calls[j].pc = "done"

NextTasks ==
    \/ \E i \in DOMAIN calls : Responded(i) /\ TasksStart(i)
    \/ \E i \in DOMAIN calls : Responded(i) /\ TasksCheckExists(i)
    \/ \E i \in DOMAIN calls : Responded(i) /\ TasksRead(i)
    \/ \E i \in DOMAIN calls : Responded(i) /\ ToggleStart(i)
    \/ \E i \in DOMAIN calls : Responded(i) /\ ToggleCheckExists(i)
    \/ \E i \in DOMAIN calls : Responded(i) /\ ToggleRead(i)
    \/ \E i \in DOMAIN calls : Responded(i) /\ ToggleWrite(i)

SpecTasks == InitTasks /\ [][NextTasks]_vars

\* get-tasks-in-note has reported the line the toggle-task call names.
ReportedLine ==
    /\ Len(calls) = 3
    /\ calls[1].tool = "get-tasks-in-note"
    /\ calls[1].pc = "done" /\ calls[1].result = "success"
    /\ \E k \in DOMAIN calls[1].tasks : calls[1].tasks[k].line = calls[2].line

\* The tasks with the checked flag of the one on line n inverted.
WithInverted(tasks, n) ==
    [k \in DOMAIN tasks |->
        IF tasks[k].line = n THEN [tasks[k] EXCEPT !.checked = ~@] ELSE tasks[k]]

\* C29: a line number reported by get-tasks-in-note is accepted by
\* toggle-task on the unchanged note: the call does not fail on the line
\* number or the task pattern.  After the toggle get-tasks-in-note reports
\* the same line numbers and texts, with the checked flag of the toggled
\* task alone inverted.
C29_ReportedLinesToggle ==
    (ReportedLine /\ calls[2].pc = "done")
    => /\ (calls[2].found = "yes" /\ calls[2].result # handleFsError)
          => calls[2].result = "success"
       /\ (/\ calls[2].result = "success" /\ calls[2].wrote = "ok"
           /\ calls[3].pc = "done" /\ calls[3].result = "success")
          => calls[3].tasks = WithInverted(calls[1].tasks, calls[2].line)

\* A task line that holds a carriage return was reported and toggled, and
\* the tasks were reported again.
C29_Witness ==
    /\ ReportedLine
    /\ calls[2].pc = "done" /\ calls[2].result = "success" /\ calls[2].wrote = "ok"
    /\ calls[3].pc = "done" /\ calls[3].result = "success"
    /\ Len(calls[1].tasks) = 2
    /\ Contains(SplitLines(calls[2].before, <<>>)[calls[2].line], "CR")

====
